---- MODULE Spec2Model ----
(***************************************************************************)
(* Model of the budget backend's two services:                             *)
(*   SavingsGoalsService  (createGoal, updateGoal, deleteGoal, addFunds,   *)
(*                         completeGoal, syncGoalsWithDashboard,           *)
(*                         getSavingsHistory)                              *)
(*   DashboardService     (getFinancialSummary, getTodaySpending,          *)
(*                         getBudgetProgress, clearTransactions,           *)
(*                         clearBills, clearSavingsGoals, clearAllUserData)*)
(* Every request is a process that advances at its await points.  The      *)
(* statements of a prisma.$transaction callback work on the working copy   *)
(* tx and become visible in db when the callback returns; a failure inside *)
(* the callback discards tx.                                               *)
(***************************************************************************)
EXTENDS Integers, Sequences, FiniteSets, TLC

VARIABLES db, tx, txOwner, proc, now, hist

vars == <<db, tx, txOwner, proc, now, hist>>

(* ------------------------------ bounds --------------------------------- *)
MaxGoals == 1
MaxPlanItems == 3
MaxAmount == 2
MaxMonths == 2
MaxRows == 1
MaxGoalIds == 2
MaxInitial == 1
MaxSummaryRows == 2

(* ------------------------------ values --------------------------------- *)
Users == {"u1", "u2"}
AllProcs == {1, 2}

NameC == <<"c">>
NameCD == <<"c", "d">>
NameE == <<"e">>
(* a goal called Savings: its name is part of every `Savings: ...` *)
NameSavings == <<"S", "a", "v", "i", "n", "g", "s">>
GoalNames == {NameC, NameCD, NameE}

Targets == {1, 2, 3}
None == "undefined"

(* `Savings: ${goal.name}` *)
SavingsPrefix == <<"S", "a", "v", "i", "n", "g", "s", ":", " ">>
SavingsDescription(name) == SavingsPrefix \o name

(* Prisma's string filter { contains: needle } *)
Contains(hay, needle) ==
  \E i \in 0..(Len(hay) - Len(needle)) : SubSeq(hay, i + 1, i + Len(needle)) = needle

(* ------------------------------ dates ---------------------------------- *)
LastTick == 2
(* a Date: calendar day and time of day; tick 0 is 00:00:00.000 and        *)
(* LastTick is 23:59:59.999                                                *)
Date(y, m, d, t) == [y |-> y, m |-> m, d |-> d, t |-> t]
(* new Date() at the start of a run *)
StartDate == Date(2024, 12, 1, 1)
NoDate == Date(0, 0, 0, 0)

DateBefore(a, b) ==
  \/ a.y < b.y
  \/ a.y = b.y /\ a.m < b.m
  \/ a.y = b.y /\ a.m = b.m /\ a.d < b.d
  \/ a.y = b.y /\ a.m = b.m /\ a.d = b.d /\ a.t < b.t
(* the date filters gte / lte of Prisma: a <= b *)
DateLE(a, b) == a = b \/ DateBefore(a, b)

IsLeapYear(y) == (y % 4 = 0 /\ y % 100 # 0) \/ y % 400 = 0
DaysInMonth(y, m) ==
  IF m = 2 THEN (IF IsLeapYear(y) THEN 29 ELSE 28)
  ELSE IF m \in {4, 6, 9, 11} THEN 30 ELSE 31
(* date-fns startOfMonth / endOfMonth *)
startOfMonth(date) == Date(date.y, date.m, 1, 0)
endOfMonth(date) == Date(date.y, date.m, DaysInMonth(date.y, date.m), LastTick)
(* new Date(year, monthIndex, day) for day 0 or 1: JavaScript carries a    *)
(* month index outside 0..11 into the year, and day 0 is the last day of   *)
(* the month before                                                        *)
JsDate(year, monthIndex, day) ==
  LET y == year + (monthIndex \div 12)
      m == (monthIndex % 12) + 1
  IN IF day >= 1 THEN Date(y, m, day, 0)
     ELSE IF m = 1 THEN Date(y - 1, 12, DaysInMonth(y - 1, 12), 0)
     ELSE Date(y, m - 1, DaysInMonth(y, m - 1), 0)

(* date-fns startOfDay / endOfDay *)
startOfDay(date) == [date EXCEPT !.t = 0]
endOfDay(date) == [date EXCEPT !.t = LastTick]

(* getDay(): 0 is Sunday *)
DayOfWeek(date) ==
  LET t == <<0, 3, 2, 5, 0, 3, 5, 1, 4, 6, 2, 4>>
      y == IF date.m < 3 THEN date.y - 1 ELSE date.y
  IN (y + (y \div 4) - (y \div 100) + (y \div 400) + t[date.m] + date.d) % 7

PrevDay(date) ==
  IF date.d > 1 THEN [date EXCEPT !.d = date.d - 1]
  ELSE IF date.m > 1 THEN [date EXCEPT !.m = date.m - 1,
                                       !.d = DaysInMonth(date.y, date.m - 1)]
  ELSE [date EXCEPT !.y = date.y - 1, !.m = 12, !.d = 31]
NextDay(date) ==
  IF date.d < DaysInMonth(date.y, date.m) THEN [date EXCEPT !.d = date.d + 1]
  ELSE IF date.m < 12 THEN [date EXCEPT !.m = date.m + 1, !.d = 1]
  ELSE [date EXCEPT !.y = date.y + 1, !.m = 1, !.d = 1]

RECURSIVE AddDays(_, _)
AddDays(date, n) ==
  IF n = 0 THEN date
  ELSE IF n > 0 THEN AddDays(NextDay(date), n - 1)
  ELSE AddDays(PrevDay(date), n + 1)

(* date-fns startOfWeek / endOfWeek with { weekStartsOn: 0 } *)
startOfWeek(date) == startOfDay(AddDays(date, 0 - DayOfWeek(date)))
endOfWeek(date) == endOfDay(AddDays(date, 6 - DayOfWeek(date)))

(* a quotient of two numbers, kept exact *)
Quot(n, d) == [num |-> n, den |-> d]
Zero == Quot(0, 1)
(* q - n *)
QuotMinus(q, n) == Quot(q.num - n * q.den, q.den)
(* Math.max(0, q), the denominator being positive *)
QuotMax0(q) == IF q.num < 0 THEN Zero ELSE q

Digit(n) == <<"0", "1", "2", "3", "4", "5", "6", "7", "8", "9">>[n + 1]
(* `${getFullYear()}-${String(getMonth() + 1).padStart(2, '0')}` *)
MonthKey(y, m) ==
  <<Digit(y \div 1000), Digit((y \div 100) % 10), Digit((y \div 10) % 10), Digit(y % 10),
    "-", Digit(m \div 10), Digit(m % 10)>>
currentMonthPlan == MonthKey(now.y, now.m)

(* ------------------------------ tables --------------------------------- *)
NoRows == <<>>
EmptyDb ==
  [goals |-> NoRows, goalSeq |-> 0, planItems |-> NoRows, transactions |-> NoRows,
   bills |-> NoRows, budgets |-> NoRows, categories |-> NoRows,
   categoryAllocations |-> NoRows]

(* an absent dto field is falsy in every test the services make of it: the *)
(* empty name and the amount 0 stand for undefined                          *)
NoName == <<>>
NoDto ==
  [name |-> NoName, targetAmount |-> 0, currentAmount |-> 0, amount |-> 0,
   fromDate |-> NoDate, toDate |-> NoDate]
NoGoal == [userId |-> None, name |-> NoName, targetAmount |-> 0, currentAmount |-> 0,
           completed |-> FALSE]
NoRet == [none |-> TRUE]

DeleteIds(rows, S) == [i \in (DOMAIN rows) \ S |-> rows[i]]
Insert(rows, id, row) == [i \in (DOMAIN rows) \cup {id} |-> IF i = id THEN row ELSE rows[i]]
FreeId(rows, max) == CHOOSE i \in 1..max : i \notin DOMAIN rows /\ \A j \in 1..(i - 1) : j \in DOMAIN rows
HasFreeId(rows, max) == \E i \in 1..max : i \notin DOMAIN rows

RECURSIVE SumAmount(_, _)
(* rows.reduce((sum, r) => sum + r.amount, 0) over the rows with ids in S *)
SumAmount(rows, S) ==
  IF S = {} THEN 0
  ELSE LET i == CHOOSE x \in S : TRUE IN rows[i].amount + SumAmount(rows, S \ {i})

RECURSIVE SumCurrent(_, _)
(* goals.reduce((sum, goal) => sum + goal.currentAmount, 0) *)
SumCurrent(rows, S) ==
  IF S = {} THEN 0
  ELSE LET i == CHOOSE x \in S : TRUE IN rows[i].currentAmount + SumCurrent(rows, S \ {i})

(* ------------------------------ processes ------------------------------ *)
NoCounts ==
  [transactions |-> 0, bills |-> 0, savingsGoals |-> 0, planItems |-> 0, budgets |-> 0,
   userCategories |-> 0, categoryAllocations |-> 0]

(* a request: where it stands (pc), its arguments (userId, goalId, dto),   *)
(* its locals (goal: the row verifyOwnership returned; counts: the counts  *)
(* a clear operation took; step: the delete it issues next), its outcome   *)
(* (status, ret) and, as history, the rows it has deleted so far (deleted) *)
IdleProc ==
  [pc |-> "idle", op |-> None, userId |-> None, goalId |-> 0, dto |-> NoDto,
   goal |-> NoGoal, counts |-> NoCounts, step |-> 0, status |-> None, ret |-> NoRet,
   deleted |-> NoCounts]

Ready(p) == proc[p].pc \in {"idle", "done"}

(* the request has returned or thrown: its locals are gone, its outcome stays *)
Done(p, status, ret) ==
  [proc EXCEPT ![p] = [IdleProc EXCEPT !.pc = "done", !.op = proc[p].op,
                                       !.userId = proc[p].userId,
                                       !.goalId = proc[p].goalId,
                                       !.deleted = proc[p].deleted,
                                       !.status = status, !.ret = ret]]

(* ------------------------ SavingsGoalsService -------------------------- *)
(* the request of a goal operation that starts with verifyOwnership *)
Called(op, userId, goalId, dto) ==
  [IdleProc EXCEPT !.op = op, !.userId = userId, !.goalId = goalId, !.dto = dto]

(* throw new NotFoundException / ForbiddenException *)
Thrown(called, exception) ==
  [called EXCEPT !.pc = "done", !.status = exception, !.dto = NoDto]

verifyOwnershipAnyUser(d, userId, goalId) ==
  IF goalId \notin DOMAIN d.goals THEN "NotFound" ELSE "ok"
(* verifyOwnership: NotFound when the goal is missing, Forbidden when it   *)
(* belongs to another user, otherwise the goal is returned.                *)
verifyOwnership(d, userId, goalId) ==
  IF goalId \notin DOMAIN d.goals THEN "NotFound"
  ELSE IF d.goals[goalId].userId # userId THEN "Forbidden"
  ELSE "ok"

(* addFunds: const newAmount = goal.currentAmount + dto.amount *)
newAmount(goal, amount) == goal.currentAmount + amount
isCompletedStrict(goal, amount) == newAmount(goal, amount) > goal.targetAmount
(* addFunds: const isCompleted = newAmount >= goal.targetAmount *)
isCompleted(goal, amount) == newAmount(goal, amount) >= goal.targetAmount

alreadyCompletedIgnored(goal) == FALSE
(* addFunds, completeGoal: if (goal.completed) throw new ForbiddenException *)
alreadyCompleted(goal) == goal.completed

(* addFunds, up to the start of the transaction: verifyOwnership and the   *)
(* completed check, both on the committed rows.                            *)
AddFundsCall(p, userId, goalId, amount) ==
  /\ Ready(p)
  /\ LET v == verifyOwnership(db, userId, goalId)
         called == Called("addFunds", userId, goalId, [NoDto EXCEPT !.amount = amount])
     IN proc' = [proc EXCEPT ![p] =
          IF v # "ok" THEN Thrown(called, v)
          ELSE IF alreadyCompleted(db.goals[goalId]) THEN Thrown(called, "Forbidden")
          ELSE [called EXCEPT !.pc = "addFunds_goal", !.goal = db.goals[goalId]]]
  /\ UNCHANGED <<db, tx, txOwner, now, hist>>

TxWriteThrough(store, t) == [db |-> t, tx |-> t]
goalRereadInTransaction(p, d) == d.goals[proc[p].goalId]
(* addFunds: the goal its transaction computes with is the row that        *)
(* verifyOwnership returned before the transaction began                   *)
goalOfRequest(p, d) == proc[p].goal

(* where a statement of a $transaction callback writes: the working copy *)
TxWrite(store, t) == [db |-> store.db, tx |-> t]

(* addFunds, first statement of the transaction: savingsGoal.update *)
AddFundsUpdateGoal(p) ==
  /\ proc[p].pc = "addFunds_goal"
  /\ txOwner = 0
  /\ LET goal == goalOfRequest(p, db)
         amount == proc[p].dto.amount
         g == proc[p].goalId
     IN IF g \notin DOMAIN db.goals
        THEN /\ proc' = Done(p, "error", NoRet)
             /\ UNCHANGED <<db, tx, txOwner>>
        ELSE LET t == [db EXCEPT !.goals[g].currentAmount = newAmount(goal, amount),
                                 !.goals[g].completed = isCompleted(goal, amount)]
                 s == TxWrite([db |-> db, tx |-> db], t)
             IN /\ db' = s.db
                /\ tx' = s.tx
                /\ txOwner' = p
                /\ proc' = [proc EXCEPT ![p].pc = "addFunds_planItem"]
  /\ UNCHANGED <<now, hist>>

(* the rows planItem.findFirst may return: SAVINGS items of the user for   *)
(* the current month whose description contains the goal's name            *)
existingSavingsItems(d, userId, name, month) ==
  {i \in DOMAIN d.planItems :
     /\ d.planItems[i].userId = userId
     /\ d.planItems[i].itemType = "SAVINGS"
     /\ d.planItems[i].planType = month
     /\ Contains(d.planItems[i].description, name)}

SavingsItem(userId, name, amount, month) ==
  [userId |-> userId, description |-> SavingsDescription(name), amount |-> amount,
   planType |-> month, itemType |-> "SAVINGS"]

(* addFunds, second statement: update the found plan item or create one,   *)
(* then the callback returns and the transaction commits.                  *)
AddFundsPlanItem(p) ==
  /\ proc[p].pc = "addFunds_planItem"
  /\ txOwner = p
  /\ LET goal == proc[p].goal
         amount == proc[p].dto.amount
         found == existingSavingsItems(tx, proc[p].userId, goal.name, currentMonthPlan)
     IN /\ IF found # {}
           THEN \E i \in found :
                  db' = [tx EXCEPT !.planItems[i].amount = tx.planItems[i].amount + amount]
           ELSE /\ HasFreeId(tx.planItems, MaxPlanItems)
                /\ db' = [tx EXCEPT !.planItems =
                            Insert(tx.planItems, FreeId(tx.planItems, MaxPlanItems),
                                   SavingsItem(proc[p].userId, goal.name, amount,
                                               currentMonthPlan))]
        /\ proc' = Done(p, "ok", tx.goals[proc[p].goalId])
        /\ hist' = [hist EXCEPT ![proc[p].goalId] = @ + amount]
  /\ tx' = EmptyDb
  /\ txOwner' = 0
  /\ UNCHANGED now

(* createGoal, first statement of the transaction: savingsGoal.create *)
CreateGoalCall(p, userId, name, targetAmount, currentAmount) ==
  /\ Ready(p)
  /\ txOwner = 0
  /\ LET id == db.goalSeq + 1
         goal == [userId |-> userId, name |-> name, targetAmount |-> targetAmount,
                  currentAmount |-> currentAmount,
                  completed |-> FALSE]
     IN /\ tx' = [db EXCEPT !.goals = Insert(db.goals, id, goal), !.goalSeq = id]
        /\ proc' = [proc EXCEPT ![p] =
             [IdleProc EXCEPT !.pc = "createGoal_planItem", !.op = "createGoal",
                              !.userId = userId, !.goalId = id, !.goal = goal,
                              !.dto = [NoDto EXCEPT !.name = name,
                                                    !.targetAmount = targetAmount,
                                                    !.currentAmount = currentAmount]]]
  /\ txOwner' = p
  /\ UNCHANGED <<db, now, hist>>

hasInitialAmountOrNone(goal) == goal.currentAmount >= 0
(* createGoal: if (goal.currentAmount > 0) *)
hasInitialAmount(goal) == goal.currentAmount > 0

(* createGoal: if (goal.currentAmount > 0) planItem.create; commit *)
CreateGoalPlanItem(p) ==
  /\ proc[p].pc = "createGoal_planItem"
  /\ txOwner = p
  /\ LET goal == proc[p].goal
     IN /\ IF hasInitialAmount(goal)
           THEN /\ HasFreeId(tx.planItems, MaxPlanItems)
                /\ db' = [tx EXCEPT !.planItems =
                            Insert(tx.planItems, FreeId(tx.planItems, MaxPlanItems),
                                   SavingsItem(proc[p].userId, goal.name,
                                               goal.currentAmount, currentMonthPlan))]
           ELSE db' = tx
        /\ proc' = Done(p, "ok", goal)
        /\ hist' = [hist EXCEPT ![proc[p].goalId] = goal.currentAmount]
  /\ tx' = EmptyDb
  /\ txOwner' = 0
  /\ UNCHANGED now

(* updateGoal, up to the start of the transaction: verifyOwnership *)
UpdateGoalCall(p, userId, goalId, name, targetAmount) ==
  /\ Ready(p)
  /\ LET v == verifyOwnership(db, userId, goalId)
         called == Called("updateGoal", userId, goalId,
                          [NoDto EXCEPT !.name = name, !.targetAmount = targetAmount])
     IN proc' = [proc EXCEPT ![p] =
          IF v # "ok" THEN Thrown(called, v)
          ELSE [called EXCEPT !.pc = "updateGoal_goal", !.goal = db.goals[goalId]]]
  /\ UNCHANGED <<db, tx, txOwner, now, hist>>

updateDataRecomputed(row, dto) ==
  LET targetAmount == IF dto.targetAmount # 0 THEN dto.targetAmount ELSE row.targetAmount
  IN [row EXCEPT !.name = IF dto.name # NoName THEN dto.name ELSE @,
                 !.targetAmount = targetAmount,
                 !.completed = row.currentAmount >= targetAmount]
(* updateGoal: the data of savingsGoal.update, only the supplied fields *)
updateData(row, dto) ==
  [row EXCEPT !.name = IF dto.name # NoName THEN dto.name ELSE @,
              !.targetAmount = IF dto.targetAmount # 0
                               THEN dto.targetAmount ELSE @]

(* updateGoal, first statement of the transaction: savingsGoal.update *)
UpdateGoalUpdate(p) ==
  /\ proc[p].pc = "updateGoal_goal"
  /\ txOwner = 0
  /\ LET g == proc[p].goalId
     IN IF g \notin DOMAIN db.goals
        THEN /\ proc' = Done(p, "error", NoRet)
             /\ UNCHANGED <<tx, txOwner>>
        ELSE /\ tx' = [db EXCEPT !.goals[g] = updateData(db.goals[g], proc[p].dto)]
             /\ txOwner' = p
             /\ proc' = [proc EXCEPT ![p].pc = "updateGoal_planItems"]
  /\ UNCHANGED <<db, now, hist>>

relatedPlanItemsExact(d, userId, name) ==
  {i \in DOMAIN d.planItems :
     /\ d.planItems[i].userId = userId
     /\ d.planItems[i].itemType = "SAVINGS"
     /\ d.planItems[i].description = SavingsDescription(name)}
relatedPlanItemsAnyUser(d, userId, name) ==
  {i \in DOMAIN d.planItems :
     /\ d.planItems[i].itemType = "SAVINGS"
     /\ Contains(d.planItems[i].description, name)}
(* the where clause shared by updateGoal's updateMany and deleteGoal's     *)
(* deleteMany: SAVINGS items of the user whose description contains name   *)
relatedPlanItems(d, userId, name) ==
  {i \in DOMAIN d.planItems :
     /\ d.planItems[i].userId = userId
     /\ d.planItems[i].itemType = "SAVINGS"
     /\ Contains(d.planItems[i].description, name)}

(* updateGoal: if (dto.name && dto.name !== goal.name) planItem.updateMany *)
UpdateGoalPlanItems(p) ==
  /\ proc[p].pc = "updateGoal_planItems"
  /\ txOwner = p
  /\ LET goal == proc[p].goal
         dto == proc[p].dto
         related == relatedPlanItems(tx, proc[p].userId, goal.name)
     IN /\ IF dto.name # NoName /\ dto.name # goal.name
           THEN db' = [tx EXCEPT !.planItems =
                         [i \in DOMAIN tx.planItems |->
                            IF i \in related
                            THEN [tx.planItems[i] EXCEPT
                                    !.description = SavingsDescription(dto.name)]
                            ELSE tx.planItems[i]]]
           ELSE db' = tx
        /\ proc' = Done(p, "ok", tx.goals[proc[p].goalId])
  /\ tx' = EmptyDb
  /\ txOwner' = 0
  /\ UNCHANGED <<now, hist>>

(* deleteGoal, up to the start of the transaction: verifyOwnership *)
DeleteGoalCall(p, userId, goalId) ==
  /\ Ready(p)
  /\ LET v == verifyOwnership(db, userId, goalId)
         called == Called("deleteGoal", userId, goalId, NoDto)
     IN proc' = [proc EXCEPT ![p] =
          IF v # "ok" THEN Thrown(called, v)
          ELSE [called EXCEPT !.pc = "deleteGoal_planItems", !.goal = db.goals[goalId]]]
  /\ UNCHANGED <<db, tx, txOwner, now, hist>>

(* deleteGoal, first statement of the transaction: planItem.deleteMany *)
DeleteGoalPlanItems(p) ==
  /\ proc[p].pc = "deleteGoal_planItems"
  /\ txOwner = 0
  /\ tx' = [db EXCEPT !.planItems =
              DeleteIds(db.planItems,
                        relatedPlanItems(db, proc[p].userId, proc[p].goal.name))]
  /\ txOwner' = p
  /\ proc' = [proc EXCEPT ![p].pc = "deleteGoal_goal"]
  /\ UNCHANGED <<db, now, hist>>

(* deleteGoal, second statement: savingsGoal.delete; commit *)
DeleteGoalDelete(p) ==
  /\ proc[p].pc = "deleteGoal_goal"
  /\ txOwner = p
  /\ LET g == proc[p].goalId
     IN IF g \notin DOMAIN tx.goals
        THEN /\ proc' = Done(p, "error", NoRet)
             /\ UNCHANGED db
        ELSE /\ db' = [tx EXCEPT !.goals = DeleteIds(tx.goals, {g})]
             /\ proc' = Done(p, "ok", NoRet)
  /\ tx' = EmptyDb
  /\ txOwner' = 0
  /\ UNCHANGED <<now, hist>>

(* completeGoal, up to the update: verifyOwnership and the completed check *)
CompleteGoalCall(p, userId, goalId) ==
  /\ Ready(p)
  /\ LET v == verifyOwnership(db, userId, goalId)
         called == Called("completeGoal", userId, goalId, NoDto)
     IN proc' = [proc EXCEPT ![p] =
          IF v # "ok" THEN Thrown(called, v)
          ELSE IF alreadyCompleted(db.goals[goalId]) THEN Thrown(called, "Forbidden")
          ELSE [called EXCEPT !.pc = "completeGoal_update", !.goal = db.goals[goalId]]]
  /\ UNCHANGED <<db, tx, txOwner, now, hist>>

completedDataWhenReached(row) ==
  [row EXCEPT !.completed = row.currentAmount >= row.targetAmount]
(* completeGoal: data: { completed: true } *)
completedData(row) == [row EXCEPT !.completed = TRUE]

(* completeGoal: savingsGoal.update({ data: { completed: true } }), a      *)
(* single statement outside any transaction                                *)
CompleteGoalUpdate(p) ==
  /\ proc[p].pc = "completeGoal_update"
  /\ txOwner = 0
  /\ LET g == proc[p].goalId
     IN IF g \notin DOMAIN db.goals
        THEN /\ proc' = Done(p, "error", NoRet)
             /\ UNCHANGED db
        ELSE /\ db' = [db EXCEPT !.goals[g] = completedData(db.goals[g])]
             /\ proc' = Done(p, "ok", db'.goals[g])
  /\ UNCHANGED <<tx, txOwner, now, hist>>

goalsOfAnyUser(d, userId) == DOMAIN d.goals
(* the goals syncGoalsWithDashboard reads: savingsGoal.findMany({userId}) *)
goalsOf(d, userId) == {g \in DOMAIN d.goals : d.goals[g].userId = userId}

goalsToSyncAll(d, userId) == goalsOf(d, userId)
(* syncGoalsWithDashboard: the goals that get a plan item *)
goalsToSync(d, userId) == {g \in goalsOf(d, userId) : d.goals[g].currentAmount > 0}

(* syncGoalsWithDashboard, first statements of the transaction: findMany   *)
(* and deleteMany of the user's SAVINGS items of the current month         *)
SyncCall(p, userId) ==
  /\ Ready(p)
  /\ txOwner = 0
  /\ tx' = [db EXCEPT !.planItems =
              DeleteIds(db.planItems,
                        {i \in DOMAIN db.planItems :
                           /\ db.planItems[i].userId = userId
                           /\ db.planItems[i].itemType = "SAVINGS"
                           /\ db.planItems[i].planType = currentMonthPlan})]
  /\ txOwner' = p
  /\ proc' = [proc EXCEPT ![p] =
       [IdleProc EXCEPT !.pc = "sync_create", !.op = "syncGoalsWithDashboard",
                        !.userId = userId]]
  /\ UNCHANGED <<db, now, hist>>

RECURSIVE createItems(_, _, _, _, _, _)
(* the loop `for (const goal of savingsGoals)`: planItem.create per goal   *)
(* with currentAmount > 0; yields the plan items and the created ids       *)
createItems(items, created, d, todo, userId, month) ==
  IF todo = {} THEN [planItems |-> items, created |-> created]
  ELSE LET g == CHOOSE x \in todo : \A y \in todo : x <= y
           id == FreeId(items, MaxPlanItems)
           goal == d.goals[g]
       IN createItems(Insert(items, id,
                             SavingsItem(userId, goal.name, goal.currentAmount, month)),
                      created \cup {id}, d, todo \ {g}, userId, month)

(* syncGoalsWithDashboard: the create loop, the totals, the result; commit *)
SyncCreate(p) ==
  /\ proc[p].pc = "sync_create"
  /\ txOwner = p
  /\ LET userId == proc[p].userId
         savingsGoals == goalsOf(tx, userId)
         todo == goalsToSync(tx, userId)
         r == createItems(tx.planItems, {}, tx, todo, userId, currentMonthPlan)
         totalActualSavings == SumCurrent(tx.goals, savingsGoals)
         totalDashboardSavings == SumAmount(r.planItems, r.created)
     IN /\ Cardinality(DOMAIN tx.planItems) + Cardinality(todo) <= MaxPlanItems
        /\ db' = [tx EXCEPT !.planItems = r.planItems]
        /\ proc' = Done(p, "ok",
             [goalsCount |-> Cardinality(savingsGoals),
              totalActualSavings |-> totalActualSavings,
              totalDashboardSavings |-> totalDashboardSavings,
              syncedItemsCount |-> Cardinality(r.created),
              syncStatus |-> IF totalActualSavings = totalDashboardSavings
                             THEN "synced" ELSE "error",
              period |-> currentMonthPlan])
  /\ tx' = EmptyDb
  /\ txOwner' = 0
  /\ UNCHANGED <<now, hist>>

(* getSavingsHistory: const monthsToRetrieve = months || 6 *)
DefaultMonths == 6
monthsToRetrieve(months) == IF months # 0 THEN months ELSE DefaultMonths

(* getSavingsHistory: monthsList, entry i + 1 being the first day of the   *)
(* month i months before currentDate                                       *)
monthsList(currentDate, n) ==
  [k \in 1..n |-> JsDate(currentDate.y, (currentDate.m - 1) - (k - 1), 1)]

(* date.toLocaleString('default', { month: 'long', year: 'numeric' }) *)
monthName(date) == [month |-> date.m, year |-> date.y]

(* getSavingsHistory: planItem.findMany({ userId, itemType: 'SAVINGS',     *)
(* planType: monthData.key })                                              *)
plannedSavings(d, userId, key) ==
  {i \in DOMAIN d.planItems :
     /\ d.planItems[i].userId = userId
     /\ d.planItems[i].itemType = "SAVINGS"
     /\ d.planItems[i].planType = key}

(* getSavingsHistory: historyData, one entry per entry of monthsList *)
historyData(d, userId, list) ==
  [k \in 1..Len(list) |->
     LET key == MonthKey(list[k].y, list[k].m)
         items == plannedSavings(d, userId, key)
     IN [period |-> key, periodName |-> monthName(list[k]),
         totalSaved |-> SumAmount(d.planItems, items),
         itemsCount |-> Cardinality(items)]]

(* Array.prototype.reverse *)
reverse(seq) == [k \in 1..Len(seq) |-> seq[Len(seq) + 1 - k]]

RECURSIVE sumTotalSaved(_, _)
(* historyData.reduce((sum, month) => sum + month.totalSaved, 0) *)
sumTotalSaved(data, k) ==
  IF k = 0 THEN 0 ELSE sumTotalSaved(data, k - 1) + data[k].totalSaved

RECURSIVE highestMonth(_, _)
(* historyData.reduce((max, month) => month.totalSaved > max.totalSaved    *)
(* ? month : max, { totalSaved: 0, periodName: 'None' })                   *)
highestMonth(data, k) ==
  IF k = 0 THEN [totalSaved |-> 0, periodName |-> "None"]
  ELSE LET max == highestMonth(data, k - 1)
       IN IF data[k].totalSaved > max.totalSaved
          THEN [totalSaved |-> data[k].totalSaved, periodName |-> data[k].periodName]
          ELSE max

(* Math.round(averagePerMonth * 100) / 100 for a total that is not negative *)
averagePerMonth(total, n) == Quot((2 * total * 100 + n) \div (2 * n), 100)

(* getSavingsHistory: the month list, the totals per month, the summary;   *)
(* the request keeps its argument months in dto.amount                     *)
GetSavingsHistory(p, userId, months) ==
  /\ Ready(p)
  /\ LET n == monthsToRetrieve(months)
         currentDate == now
         data == historyData(db, userId, monthsList(currentDate, n))
         totalAcrossAllMonths == sumTotalSaved(data, Len(data))
         highest == highestMonth(data, Len(data))
     IN proc' = [proc EXCEPT ![p] =
          [IdleProc EXCEPT
             !.op = "getSavingsHistory", !.userId = userId,
             !.pc = "done", !.status = "ok", !.dto.amount = months,
             !.ret = [summary |->
                        [totalMonths |-> n,
                         totalAcrossAllMonths |-> totalAcrossAllMonths,
                         averagePerMonth |-> averagePerMonth(totalAcrossAllMonths, n),
                         highestMonth |-> [period |-> highest.periodName,
                                           amount |-> highest.totalSaved]],
                      history |-> reverse(data)]]]
  /\ UNCHANGED <<db, tx, txOwner, now, hist>>

(* a failure inside a $transaction callback: every statement rolls back *)
TxFail(p) ==
  /\ txOwner = p
  /\ tx' = EmptyDb
  /\ txOwner' = 0
  /\ proc' = Done(p, "error", NoRet)
  /\ UNCHANGED <<db, now, hist>>

(* --------------------------- DashboardService -------------------------- *)
rowsOf(rows, userId) == {i \in DOMAIN rows : rows[i].userId = userId}

(* a request of DashboardService that takes only the user id *)
CalledBy(op, userId) == [IdleProc EXCEPT !.op = op, !.userId = userId]

(* the request returns ret; deleted records the rows it has deleted *)
Finish(p, ret, deleted) ==
  [proc EXCEPT ![p] = [IdleProc EXCEPT !.pc = "done", !.op = proc[p].op,
                                       !.userId = proc[p].userId,
                                       !.deleted = deleted,
                                       !.status = "ok", !.ret = ret]]

(* getFinancialSummary: transaction.findMany in the window, which is the  *)
(* given dates or else the current calendar month, and the two totals      *)
transactionsInWindow(d, userId, startDate, endDate) ==
  {i \in rowsOf(d.transactions, userId) :
     DateLE(startDate, d.transactions[i].date) /\ DateLE(d.transactions[i].date, endDate)}

GetFinancialSummaryTransactions(p, userId, fromDate, toDate) ==
  /\ Ready(p)
  /\ LET startDate == IF fromDate # NoDate THEN fromDate ELSE startOfMonth(now)
         endDate == IF toDate # NoDate THEN toDate ELSE endOfMonth(now)
         transactions == transactionsInWindow(db, userId, startDate, endDate)
         incomeTotal == SumAmount(db.transactions,
                          {i \in transactions : db.transactions[i].type = "INCOME"})
         expenseTotal == SumAmount(db.transactions,
                           {i \in transactions : db.transactions[i].type = "EXPENSE"})
     IN proc' = [proc EXCEPT ![p] =
          [CalledBy("getFinancialSummary", userId) EXCEPT
             !.pc = "getFinancialSummary_savings",
             !.dto.fromDate = fromDate, !.dto.toDate = toDate,
             !.ret = [incomeTotal |-> incomeTotal, expenseTotal |-> expenseTotal,
                      startDate |-> startDate, endDate |-> endDate]]]
  /\ UNCHANGED <<db, tx, txOwner, now, hist>>

savingsItemsThisMonth(d, userId) ==
  {i \in rowsOf(d.planItems, userId) :
     d.planItems[i].itemType = "SAVINGS" /\ d.planItems[i].planType = currentMonthPlan}
(* getFinancialSummary: planItem.findMany({ userId, itemType: 'SAVINGS' }) *)
savingsItems(d, userId) ==
  {i \in rowsOf(d.planItems, userId) : d.planItems[i].itemType = "SAVINGS"}

(* getFinancialSummary: the savings total, the remaining amount, the result *)
GetFinancialSummarySavings(p) ==
  /\ proc[p].pc = "getFinancialSummary_savings"
  /\ LET savingsTotal == SumAmount(db.planItems, savingsItems(db, proc[p].userId))
         incomeTotal == proc[p].ret.incomeTotal
         expenseTotal == proc[p].ret.expenseTotal
         remainingAmount == incomeTotal - expenseTotal - savingsTotal
     IN proc' = [proc EXCEPT ![p].pc = "done", ![p].status = "ok",
                   ![p].ret = [incomeTotal |-> incomeTotal, expenseTotal |-> expenseTotal,
                               savingsTotal |-> savingsTotal,
                               remainingAmount |-> remainingAmount,
                               startDate |-> proc[p].ret.startDate,
                               endDate |-> proc[p].ret.endDate]]
  /\ UNCHANGED <<db, tx, txOwner, now, hist>>

(* the where clause of budget.findFirst: the user's budgets of the type    *)
(* with startDate <= at <= endDate                                         *)
activeBudgets(d, userId, type, at) ==
  {i \in rowsOf(d.budgets, userId) :
     /\ d.budgets[i].type = type
     /\ DateLE(d.budgets[i].startDate, at)
     /\ DateLE(at, d.budgets[i].endDate)}

(* the where clause of transaction.findMany in getTodaySpending and        *)
(* getBudgetProgress: the user's EXPENSE transactions in the window        *)
expensesInWindow(d, userId, startDate, endDate) ==
  {i \in transactionsInWindow(d, userId, startDate, endDate) :
     d.transactions[i].type = "EXPENSE"}

(* getTodaySpending: today's EXPENSE transactions, their total and count *)
GetTodaySpendingTransactions(p, userId) ==
  /\ Ready(p)
  /\ LET today == now
         todayTransactions ==
           expensesInWindow(db, userId, startOfDay(today), endOfDay(today))
     IN proc' = [proc EXCEPT ![p] =
          [CalledBy("getTodaySpending", userId) EXCEPT
             !.pc = "getTodaySpending_budget",
             !.ret = [totalSpentToday |-> SumAmount(db.transactions, todayTransactions),
                      transactionCount |-> Cardinality(todayTransactions),
                      date |-> today]]]
  /\ UNCHANGED <<db, tx, txOwner, now, hist>>

daysInMonthThirty(today) == 30
(* new Date(today.getFullYear(), today.getMonth() + 1, 0).getDate() *)
daysInMonth(today) == JsDate(today.y, (today.m - 1) + 1, 0).d

(* monthlyBudget ? monthlyBudget.amount / daysInMonth : 0 *)
dailyBudget(budgets, found, today) ==
  IF found \in DOMAIN budgets THEN Quot(budgets[found].amount, daysInMonth(today))
  ELSE Zero

(* Math.max(0, dailyBudget - totalSpentToday) *)
remainingBudget(daily, totalSpentToday) == QuotMax0(QuotMinus(daily, totalSpentToday))

(* getTodaySpending: budget.findFirst of the active MONTHLY budgets (any   *)
(* one of them, or none: id 0), the daily and the remaining budget         *)
GetTodaySpendingBudget(p) ==
  /\ proc[p].pc = "getTodaySpending_budget"
  /\ LET today == proc[p].ret.date
         active == activeBudgets(db, proc[p].userId, "MONTHLY", today)
         totalSpentToday == proc[p].ret.totalSpentToday
     IN \E monthlyBudget \in (IF active = {} THEN {0} ELSE active) :
          LET daily == dailyBudget(db.budgets, monthlyBudget, today)
          IN proc' = [proc EXCEPT ![p].pc = "done", ![p].status = "ok",
                        ![p].ret = [totalSpentToday |-> totalSpentToday,
                                    transactionCount |-> proc[p].ret.transactionCount,
                                    dailyBudget |-> daily,
                                    remainingBudget |->
                                      remainingBudget(daily, totalSpentToday),
                                    date |-> today]]
  /\ UNCHANGED <<db, tx, txOwner, now, hist>>

(* getBudgetProgress: the window and budget type of the period, and the    *)
(* EXPENSE transactions in the window                                      *)
GetBudgetProgressExpenses(p, userId, period) ==
  /\ Ready(p)
  /\ LET startDate == IF period = "weekly" THEN startOfWeek(now) ELSE startOfMonth(now)
         endDate == IF period = "weekly" THEN endOfWeek(now) ELSE endOfMonth(now)
         budgetType == IF period = "weekly" THEN "WEEKLY" ELSE "MONTHLY"
         expenses == expensesInWindow(db, userId, startDate, endDate)
     IN proc' = [proc EXCEPT ![p] =
          [CalledBy("getBudgetProgress", userId) EXCEPT
             !.pc = "getBudgetProgress_budget",
             !.ret = [currentSpending |-> SumAmount(db.transactions, expenses),
                      budgetType |-> budgetType, now |-> now, period |-> period,
                      startDate |-> startDate, endDate |-> endDate]]]
  /\ UNCHANGED <<db, tx, txOwner, now, hist>>

percentageUsedUnguarded(currentSpending, targetBudget) ==
  Quot(currentSpending * 100, targetBudget)
(* targetBudget > 0 ? (currentSpending / targetBudget) * 100 : 0 *)
percentageUsed(currentSpending, targetBudget) ==
  IF targetBudget > 0 THEN Quot(currentSpending * 100, targetBudget) ELSE Zero

(* Math.max(0, targetBudget - currentSpending) *)
remainingAmount(targetBudget, currentSpending) ==
  IF targetBudget - currentSpending > 0 THEN targetBudget - currentSpending ELSE 0

(* getBudgetProgress: budget.findFirst of the active budgets of the type   *)
(* (any one of them, or none: id 0), the percentage and the remainder      *)
GetBudgetProgressBudget(p) ==
  /\ proc[p].pc = "getBudgetProgress_budget"
  /\ LET r == proc[p].ret
         active == activeBudgets(db, proc[p].userId, r.budgetType, r.now)
     IN \E budget \in (IF active = {} THEN {0} ELSE active) :
          LET targetBudget == IF budget \in DOMAIN db.budgets
                              THEN db.budgets[budget].amount ELSE 0
          IN proc' = [proc EXCEPT ![p].pc = "done", ![p].status = "ok",
                        ![p].ret = [currentSpending |-> r.currentSpending,
                                    targetBudget |-> targetBudget,
                                    percentageUsed |->
                                      percentageUsed(r.currentSpending, targetBudget),
                                    remainingAmount |->
                                      remainingAmount(targetBudget, r.currentSpending),
                                    period |-> r.period,
                                    startDate |-> r.startDate, endDate |-> r.endDate]]
  /\ UNCHANGED <<db, tx, txOwner, now, hist>>

(* clearTransactions: transaction.count({ where: { userId } }) *)
ClearTransactionsCount(p, userId) ==
  /\ Ready(p)
  /\ proc' = [proc EXCEPT ![p] =
       [CalledBy("clearTransactions", userId) EXCEPT
          !.pc = "clearTransactions_delete",
          !.counts.transactions = Cardinality(rowsOf(db.transactions, userId))]]
  /\ UNCHANGED <<db, tx, txOwner, now, hist>>

(* clearTransactions: transaction.deleteMany({ where: { userId } }), a     *)
(* statement of its own after the count; the result reports the count      *)
ClearTransactionsDelete(p) ==
  /\ proc[p].pc = "clearTransactions_delete"
  /\ txOwner = 0
  /\ LET gone == rowsOf(db.transactions, proc[p].userId)
     IN /\ db' = [db EXCEPT !.transactions = DeleteIds(db.transactions, gone)]
        /\ proc' = Finish(p, [clearedCount |-> proc[p].counts.transactions,
                              dataType |-> "transactions"],
                          [proc[p].deleted EXCEPT !.transactions = @ + Cardinality(gone)])
  /\ UNCHANGED <<tx, txOwner, now, hist>>

(* clearBills, start of the transaction: bill.count *)
ClearBillsCount(p, userId) ==
  /\ Ready(p)
  /\ txOwner = 0
  /\ tx' = db
  /\ txOwner' = p
  /\ proc' = [proc EXCEPT ![p] =
       [CalledBy("clearBills", userId) EXCEPT
          !.pc = "clearBills_transactions",
          !.counts.bills = Cardinality(rowsOf(db.bills, userId))]]
  /\ UNCHANGED <<db, now, hist>>

(* clearBills: transaction.deleteMany({ userId, billId: { not: null } }) *)
billTransactions(d, userId) ==
  {i \in rowsOf(d.transactions, userId) : d.transactions[i].billId # 0}

ClearBillsTransactions(p) ==
  /\ proc[p].pc = "clearBills_transactions"
  /\ txOwner = p
  /\ LET gone == billTransactions(tx, proc[p].userId)
     IN /\ tx' = [tx EXCEPT !.transactions = DeleteIds(tx.transactions, gone)]
        /\ proc' = [proc EXCEPT ![p].pc = "clearBills_bills",
                                ![p].deleted.transactions = @ + Cardinality(gone)]
  /\ UNCHANGED <<db, txOwner, now, hist>>

(* clearBills: bill.deleteMany({ where: { userId } }); commit *)
ClearBillsBills(p) ==
  /\ proc[p].pc = "clearBills_bills"
  /\ txOwner = p
  /\ LET gone == rowsOf(tx.bills, proc[p].userId)
     IN /\ db' = [tx EXCEPT !.bills = DeleteIds(tx.bills, gone)]
        /\ proc' = Finish(p, [clearedCount |-> proc[p].counts.bills, dataType |-> "bills"],
                          [proc[p].deleted EXCEPT !.bills = @ + Cardinality(gone)])
  /\ tx' = EmptyDb
  /\ txOwner' = 0
  /\ UNCHANGED <<now, hist>>

(* clearSavingsGoals, start of the transaction: savingsGoal.count *)
ClearSavingsGoalsCount(p, userId) ==
  /\ Ready(p)
  /\ txOwner = 0
  /\ tx' = db
  /\ txOwner' = p
  /\ proc' = [proc EXCEPT ![p] =
       [CalledBy("clearSavingsGoals", userId) EXCEPT
          !.pc = "clearSavingsGoals_planItems",
          !.counts.savingsGoals = Cardinality(rowsOf(db.goals, userId))]]
  /\ UNCHANGED <<db, now, hist>>

(* clearSavingsGoals: planItem.deleteMany({ userId, itemType: 'SAVINGS' }) *)
savingsPlanItems(d, userId) ==
  {i \in rowsOf(d.planItems, userId) : d.planItems[i].itemType = "SAVINGS"}

ClearSavingsGoalsPlanItems(p) ==
  /\ proc[p].pc = "clearSavingsGoals_planItems"
  /\ txOwner = p
  /\ LET gone == savingsPlanItems(tx, proc[p].userId)
     IN /\ tx' = [tx EXCEPT !.planItems = DeleteIds(tx.planItems, gone)]
        /\ proc' = [proc EXCEPT ![p].pc = "clearSavingsGoals_goals",
                                ![p].deleted.planItems = @ + Cardinality(gone)]
  /\ UNCHANGED <<db, txOwner, now, hist>>

(* clearSavingsGoals: savingsGoal.deleteMany({ where: { userId } }); commit *)
ClearSavingsGoalsGoals(p) ==
  /\ proc[p].pc = "clearSavingsGoals_goals"
  /\ txOwner = p
  /\ LET gone == rowsOf(tx.goals, proc[p].userId)
     IN /\ db' = [tx EXCEPT !.goals = DeleteIds(tx.goals, gone)]
        /\ proc' = Finish(p, [clearedCount |-> proc[p].counts.savingsGoals,
                              dataType |-> "savings_goals"],
                          [proc[p].deleted EXCEPT !.savingsGoals = @ + Cardinality(gone)])
  /\ tx' = EmptyDb
  /\ txOwner' = 0
  /\ UNCHANGED <<now, hist>>

allCategoriesOf(d, userId) == rowsOf(d.categories, userId)
(* clearAllUserData: where: { userId, isDefault: false } *)
userCategories(d, userId) ==
  {i \in rowsOf(d.categories, userId) : ~d.categories[i].isDefault}

(* clearAllUserData: where: { budget: { userId } } *)
allocationsOf(d, userId) ==
  {i \in DOMAIN d.categoryAllocations :
     /\ d.categoryAllocations[i].budgetId \in DOMAIN d.budgets
     /\ d.budgets[d.categoryAllocations[i].budgetId].userId = userId}

(* clearAllUserData, start of the transaction: the six counts *)
ClearAllCount(p, userId) ==
  /\ Ready(p)
  /\ txOwner = 0
  /\ tx' = db
  /\ txOwner' = p
  /\ proc' = [proc EXCEPT ![p] =
       [CalledBy("clearAllUserData", userId) EXCEPT
          !.pc = "clearAllUserData_delete",
          !.step = 1,
          !.counts = [NoCounts EXCEPT
             !.transactions = Cardinality(rowsOf(db.transactions, userId)),
             !.bills = Cardinality(rowsOf(db.bills, userId)),
             !.savingsGoals = Cardinality(rowsOf(db.goals, userId)),
             !.planItems = Cardinality(rowsOf(db.planItems, userId)),
             !.budgets = Cardinality(rowsOf(db.budgets, userId)),
             !.userCategories = Cardinality(userCategories(db, userId))]]]
  /\ UNCHANGED <<db, now, hist>>

(* clearAllUserData: the deleteMany calls in the order of the array handed *)
(* to Promise.all, which is the order in which they are issued on the      *)
(* transaction's connection                                                *)
clearAllDeletes ==
  <<"transactions", "categoryAllocations", "savingsGoals", "planItems", "bills",
    "budgets", "userCategories">>

(* the rows the deleteMany on the named table removes, and what is left *)
deleteMany(d, table, userId) ==
  CASE table = "transactions" ->
         [gone |-> rowsOf(d.transactions, userId),
          db |-> [d EXCEPT !.transactions =
                    DeleteIds(d.transactions, rowsOf(d.transactions, userId))]]
    [] table = "categoryAllocations" ->
         [gone |-> allocationsOf(d, userId),
          db |-> [d EXCEPT !.categoryAllocations =
                    DeleteIds(d.categoryAllocations, allocationsOf(d, userId))]]
    [] table = "savingsGoals" ->
         [gone |-> rowsOf(d.goals, userId),
          db |-> [d EXCEPT !.goals = DeleteIds(d.goals, rowsOf(d.goals, userId))]]
    [] table = "planItems" ->
         [gone |-> rowsOf(d.planItems, userId),
          db |-> [d EXCEPT !.planItems =
                    DeleteIds(d.planItems, rowsOf(d.planItems, userId))]]
    [] table = "bills" ->
         [gone |-> rowsOf(d.bills, userId),
          db |-> [d EXCEPT !.bills = DeleteIds(d.bills, rowsOf(d.bills, userId))]]
    [] table = "budgets" ->
         [gone |-> rowsOf(d.budgets, userId),
          db |-> [d EXCEPT !.budgets = DeleteIds(d.budgets, rowsOf(d.budgets, userId))]]
    [] table = "userCategories" ->
         [gone |-> userCategories(d, userId),
          db |-> [d EXCEPT !.categories =
                    DeleteIds(d.categories, userCategories(d, userId))]]

(* clearAllUserData: the next deleteMany; after the last one the callback  *)
(* returns the counts and the transaction commits                          *)
ClearAllDelete(p) ==
  /\ proc[p].pc = "clearAllUserData_delete"
  /\ txOwner = p
  /\ LET table == clearAllDeletes[proc[p].step]
         r == deleteMany(tx, table, proc[p].userId)
         deleted == [proc[p].deleted EXCEPT ![table] = @ + Cardinality(r.gone)]
     IN IF proc[p].step < Len(clearAllDeletes)
        THEN /\ tx' = r.db
             /\ proc' = [proc EXCEPT ![p].step = @ + 1, ![p].deleted = deleted]
             /\ UNCHANGED <<db, txOwner>>
        ELSE /\ db' = r.db
             /\ tx' = EmptyDb
             /\ txOwner' = 0
             /\ proc' = Finish(p,
                  [clearedData |->
                     [transactions |-> proc[p].counts.transactions,
                      bills |-> proc[p].counts.bills,
                      savingsGoals |-> proc[p].counts.savingsGoals,
                      planItems |-> proc[p].counts.planItems,
                      budgets |-> proc[p].counts.budgets,
                      userCategories |-> proc[p].counts.userCategories]],
                  deleted)
  /\ UNCHANGED <<now, hist>>

(* ------------------------------ clock ---------------------------------- *)
MonthsElapsed == (now.y - StartDate.y) * 12 + (now.m - StartDate.m)
(* new Date() moves on to the next calendar month *)
NextMonth ==
  /\ MonthsElapsed + 1 < MaxMonths
  /\ now' = IF now.m = 12 THEN [now EXCEPT !.y = now.y + 1, !.m = 1]
                           ELSE [now EXCEPT !.m = now.m + 1]
  /\ UNCHANGED <<db, tx, txOwner, proc, hist>>

(* ------------------------------ specification -------------------------- *)
(* history: per goal id, the initial currentAmount of the created goal plus *)
(* the amounts of the addFunds calls that returned successfully             *)
NoHist == [g \in 1..MaxGoalIds |-> 0]

Init ==
  /\ db = EmptyDb
  /\ tx = EmptyDb
  /\ txOwner = 0
  /\ proc = [p \in AllProcs |-> IdleProc]
  /\ now = StartDate
  /\ hist = NoHist

(* the requests of SavingsGoalsService with their inputs drawn from in *)
GoalStep(p, in) ==
  \/ \E u \in in.users, g \in 1..in.maxGoals, a \in in.amounts : AddFundsCall(p, u, g, a)
  \/ AddFundsUpdateGoal(p)
  \/ AddFundsPlanItem(p)
  \/ \E u \in in.users, n \in in.names, t \in in.targets, c \in in.initials :
       /\ db.goalSeq < in.maxGoals
       /\ CreateGoalCall(p, u, n, t, c)
  \/ CreateGoalPlanItem(p)
  \/ \E u \in in.users, g \in 1..in.maxGoals, n \in {NoName} \cup in.names,
        t \in {0} \cup in.targets :
       UpdateGoalCall(p, u, g, n, t)
  \/ UpdateGoalUpdate(p)
  \/ UpdateGoalPlanItems(p)
  \/ \E u \in in.users, g \in 1..in.maxGoals : DeleteGoalCall(p, u, g)
  \/ DeleteGoalPlanItems(p)
  \/ DeleteGoalDelete(p)
  \/ \E u \in in.users, g \in 1..in.maxGoals : CompleteGoalCall(p, u, g)
  \/ CompleteGoalUpdate(p)
  \/ \E u \in in.users : SyncCall(p, u)
  \/ SyncCreate(p)
  \/ TxFail(p)

(* one goal, two users, every operation of SavingsGoalsService, one       *)
(* request at a time                                                       *)
SpecInputs ==
  [users |-> Users, names |-> GoalNames, targets |-> Targets, amounts |-> 1..MaxAmount,
   initials |-> 0..MaxInitial, maxGoals |-> MaxGoals]

Next == GoalStep(1, SpecInputs) \/ NextMonth

Spec == Init /\ [][Next]_vars

(* two goals whose names overlap, two users, one request at a time *)
TwoInputs ==
  [users |-> Users, names |-> {NameC, NameCD}, targets |-> {2}, amounts |-> {1},
   initials |-> 0..MaxInitial, maxGoals |-> MaxGoalIds]

NextTwo == GoalStep(1, TwoInputs) \/ NextMonth

SpecTwo == Init /\ [][NextTwo]_vars

(* two goals of one user, named from two overlapping names and a name that *)
(* is part of the description prefix, one request at a time                *)
NamesInputs ==
  [users |-> {"u1"}, names |-> {NameC, NameCD, NameSavings}, targets |-> {2},
   amounts |-> {1}, initials |-> 0..MaxInitial, maxGoals |-> MaxGoalIds]

NextNames == GoalStep(1, NamesInputs) \/ NextMonth

SpecNames == Init /\ [][NextNames]_vars

(* the names of the goals the user has *)
namesOf(d, userId) == {d.goals[g].name : g \in goalsOf(d, userId)}

(* createGoal, addFunds, updateGoal, completeGoal and deleteGoal, where a  *)
(* goal is only ever given a name that no goal of the user has             *)
LedgerStep(p, in) ==
  \/ \E u \in in.users, g \in 1..in.maxGoals, a \in in.amounts : AddFundsCall(p, u, g, a)
  \/ AddFundsUpdateGoal(p)
  \/ AddFundsPlanItem(p)
  \/ \E u \in in.users, n \in in.names, t \in in.targets, c \in in.initials :
       /\ db.goalSeq < in.maxGoals
       /\ n \notin namesOf(db, u)
       /\ CreateGoalCall(p, u, n, t, c)
  \/ CreateGoalPlanItem(p)
  \/ \E u \in in.users, g \in 1..in.maxGoals, n \in {NoName} \cup in.names,
        t \in {0} \cup in.targets :
       /\ n \notin namesOf(db, u)
       /\ UpdateGoalCall(p, u, g, n, t)
  \/ UpdateGoalUpdate(p)
  \/ UpdateGoalPlanItems(p)
  \/ \E u \in in.users, g \in 1..in.maxGoals : DeleteGoalCall(p, u, g)
  \/ DeleteGoalPlanItems(p)
  \/ DeleteGoalDelete(p)
  \/ \E u \in in.users, g \in 1..in.maxGoals : CompleteGoalCall(p, u, g)
  \/ CompleteGoalUpdate(p)
  \/ TxFail(p)

(* two goals of one user, named from three names none of which contains    *)
(* another, one request at a time                                          *)
LedgerInputs ==
  [users |-> {"u1"}, names |-> {NameC, NameE, NameSavings}, targets |-> {2},
   amounts |-> {1}, initials |-> 0..MaxInitial, maxGoals |-> MaxGoalIds]

NextLedger == LedgerStep(1, LedgerInputs) \/ NextMonth

SpecLedger == Init /\ [][NextLedger]_vars

(* the requests that race on one goal: createGoal, addFunds, completeGoal, *)
(* updateGoal of the target, and a failing transaction                     *)
RaceStep(p, in) ==
  \/ \E u \in in.users, g \in 1..in.maxGoals, a \in in.amounts : AddFundsCall(p, u, g, a)
  \/ AddFundsUpdateGoal(p)
  \/ AddFundsPlanItem(p)
  \/ \E u \in in.users, n \in in.names, t \in in.targets, c \in in.initials :
       /\ db.goalSeq < in.maxGoals
       /\ CreateGoalCall(p, u, n, t, c)
  \/ CreateGoalPlanItem(p)
  \/ \E u \in in.users, g \in 1..in.maxGoals, t \in in.targets :
       UpdateGoalCall(p, u, g, NoName, t)
  \/ UpdateGoalUpdate(p)
  \/ UpdateGoalPlanItems(p)
  \/ \E u \in in.users, g \in 1..in.maxGoals : CompleteGoalCall(p, u, g)
  \/ CompleteGoalUpdate(p)
  \/ TxFail(p)

(* one goal of one user, two requests in flight *)
ConcInputs ==
  [users |-> {"u1"}, names |-> {NameC}, targets |-> Targets, amounts |-> 1..MaxAmount,
   initials |-> 0..MaxInitial, maxGoals |-> MaxGoals]

NextConc == \E p \in AllProcs : RaceStep(p, ConcInputs)

SpecConc == Init /\ [][NextConc]_vars

(* the clear operations of DashboardService *)
ClearStep(p) ==
  \/ \E u \in Users : ClearTransactionsCount(p, u)
  \/ ClearTransactionsDelete(p)
  \/ \E u \in Users : ClearBillsCount(p, u)
  \/ ClearBillsTransactions(p)
  \/ ClearBillsBills(p)
  \/ \E u \in Users : ClearSavingsGoalsCount(p, u)
  \/ ClearSavingsGoalsPlanItems(p)
  \/ ClearSavingsGoalsGoals(p)
  \/ \E u \in Users : ClearAllCount(p, u)
  \/ ClearAllDelete(p)
  \/ TxFail(p)

(* the rows the clear operations start from: user u owns k[u] sets of rows, *)
(* each set being a plain transaction, a transaction paying a bill, the     *)
(* bill, a goal created with an initial amount and its plan item, a plan    *)
(* item of another type, a budget with a category allocation, a default     *)
(* and a user-created category                                              *)
OwnerOfSlot(i) == IF i <= MaxRows THEN "u1" ELSE "u2"
Slots(k) == {i \in 1..(2 * MaxRows) :
               IF i <= MaxRows THEN i <= k["u1"] ELSE i - MaxRows <= k["u2"]}
Pairs(S) == UNION {{2 * i - 1, 2 * i} : i \in S}
StartMonthKey == MonthKey(StartDate.y, StartDate.m)
RentDescription == <<"R", "e", "n", "t">>

ClearDb(k) ==
  [goals |-> [i \in Slots(k) |->
                [userId |-> OwnerOfSlot(i), name |-> NameC, targetAmount |-> 2,
                 currentAmount |-> 1, completed |-> FALSE]],
   goalSeq |-> 2 * MaxRows,
   planItems |-> [j \in Pairs(Slots(k)) |->
                    IF j % 2 = 1
                    THEN SavingsItem(OwnerOfSlot((j + 1) \div 2), NameC, 1, StartMonthKey)
                    ELSE [userId |-> OwnerOfSlot(j \div 2), description |-> RentDescription,
                          amount |-> 1, planType |-> StartMonthKey, itemType |-> "EXPENSE"]],
   transactions |-> [j \in Pairs(Slots(k)) |->
                       [userId |-> OwnerOfSlot((j + 1) \div 2), type |-> "EXPENSE",
                        amount |-> 1, date |-> StartDate,
                        billId |-> IF j % 2 = 1 THEN 0 ELSE j \div 2]],
   bills |-> [i \in Slots(k) |-> [userId |-> OwnerOfSlot(i)]],
   budgets |-> [i \in Slots(k) |-> [userId |-> OwnerOfSlot(i)]],
   categories |-> [j \in Pairs(Slots(k)) |->
                     [userId |-> OwnerOfSlot((j + 1) \div 2), isDefault |-> (j % 2 = 1)]],
   categoryAllocations |-> [i \in Slots(k) |-> [budgetId |-> i]]]

InitClear ==
  /\ \E k \in [Users -> 0..MaxRows] : db = ClearDb(k)
  /\ tx = EmptyDb
  /\ txOwner = 0
  /\ proc = [p \in AllProcs |-> IdleProc]
  /\ now = StartDate
  /\ hist = NoHist

(* the clear operations, one request at a time *)
NextClearSeq == ClearStep(1)

SpecClearSeq == InitClear /\ [][NextClearSeq]_vars

(* the clear operations, two requests in flight *)
NextClear == \E p \in AllProcs : ClearStep(p)

SpecClear == InitClear /\ [][NextClear]_vars

(* the dates around the current month that transactions and windows take *)
EndOfNovember == Date(StartDate.y, 11, 30, LastTick)
StartOfDecember == Date(StartDate.y, 12, 1, 0)
EndOfDecember == Date(StartDate.y, 12, 31, LastTick)
StartOfJanuary == Date(StartDate.y + 1, 1, 1, 0)
SummaryDates == {EndOfNovember, StartOfDecember, EndOfDecember, StartOfJanuary}

(* the rows the summaries start from: up to MaxSummaryRows transactions    *)
(* and as many plan items, of either user, type and month; row i has the   *)
(* amount i (transactions) or 2 + i (plan items)                           *)
SummaryTransactions(n) ==
  [1..n -> [userId : Users, type : {"INCOME", "EXPENSE"}, date : SummaryDates]]
SummaryPlanItems(n) ==
  [1..n -> [userId : Users, itemType : {"SAVINGS", "EXPENSE"},
            planType : {MonthKey(StartDate.y, 11), MonthKey(StartDate.y, 12)}]]

InitSummary ==
  /\ \E n \in 0..MaxSummaryRows, m \in 0..MaxSummaryRows :
       \E ts \in SummaryTransactions(n), ps \in SummaryPlanItems(m) :
         db = [EmptyDb EXCEPT
                 !.transactions =
                    [i \in 1..n |-> [userId |-> ts[i].userId, type |-> ts[i].type,
                                     amount |-> i, date |-> ts[i].date, billId |-> 0]],
                 !.planItems =
                    [i \in 1..m |-> [userId |-> ps[i].userId,
                                     description |-> RentDescription, amount |-> 2 + i,
                                     planType |-> ps[i].planType,
                                     itemType |-> ps[i].itemType]]]
  /\ tx = EmptyDb
  /\ txOwner = 0
  /\ proc = [p \in AllProcs |-> IdleProc]
  /\ now = StartDate
  /\ hist = NoHist

(* the read-only summaries of DashboardService *)
SummaryStep(p) ==
  \/ \E u \in Users, f \in {NoDate, EndOfNovember}, t \in {NoDate, StartOfJanuary} :
       GetFinancialSummaryTransactions(p, u, f, t)
  \/ GetFinancialSummarySavings(p)

NextSummary == SummaryStep(1)

SpecSummary == InitSummary /\ [][NextSummary]_vars

(* the goal operations and the clear operations of two users whose goals   *)
(* have identical or overlapping names, one request at a time, starting    *)
(* without rows or from the rows the clear operations start from           *)
OwnersInputs ==
  [users |-> Users, names |-> {NameC, NameCD}, targets |-> {2}, amounts |-> {1},
   initials |-> {MaxInitial}, maxGoals |-> MaxGoalIds]

InitOwners == Init \/ InitClear

NextOwners == GoalStep(1, OwnersInputs) \/ ClearStep(1)

SpecOwners == InitOwners /\ [][NextOwners]_vars

(* the instants of new Date() the budget reports are taken at: in a        *)
(* February of 28 and of 29 days, on the last day of a month of 30 days    *)
(* (a Saturday) and on the first day of a month of 31 days (a Sunday)      *)
BudgetNows ==
  {Date(2023, 2, 14, 1), Date(2024, 2, 29, 1), Date(2024, 11, 30, 1), StartDate}

(* the rows the budget reports start from: up to MaxSummaryRows            *)
(* transactions of either user and type, dated at the end of yesterday or  *)
(* at the first or last instant of today, row i of amount i; up to         *)
(* MaxBudgets budgets of either user and type, whose window is the instant *)
(* now or ended yesterday, every second one with amount 0                  *)
MaxBudgets == 2
budgetAmount(i) == (i % 2) * 31 * (i + 1)
BudgetTransactions(n) ==
  [1..n -> [userId : Users, type : {"INCOME", "EXPENSE"}, date : {"yesterday", "start", "end"}]]
BudgetRows(n) ==
  [1..n -> [userId : Users, type : {"MONTHLY", "WEEKLY"}, active : BOOLEAN]]

InitBudget ==
  /\ now \in BudgetNows
  /\ \E n \in 0..MaxSummaryRows, m \in 0..MaxBudgets :
       \E ts \in BudgetTransactions(n), bs \in BudgetRows(m) :
         db = [EmptyDb EXCEPT
                 !.transactions =
                    [i \in 1..n |->
                       [userId |-> ts[i].userId, type |-> ts[i].type, amount |-> i,
                        date |-> CASE ts[i].date = "yesterday" -> endOfDay(PrevDay(now))
                                   [] ts[i].date = "start" -> startOfDay(now)
                                   [] ts[i].date = "end" -> endOfDay(now),
                        billId |-> 0]],
                 !.budgets =
                    [i \in 1..m |->
                       [userId |-> bs[i].userId, type |-> bs[i].type,
                        amount |-> budgetAmount(i),
                        startDate |-> IF bs[i].active THEN now ELSE startOfMonth(PrevDay(now)),
                        endDate |-> IF bs[i].active THEN now ELSE endOfDay(PrevDay(now))]]]
  /\ tx = EmptyDb
  /\ txOwner = 0
  /\ proc = [p \in AllProcs |-> IdleProc]
  /\ hist = NoHist

(* the budget reports of DashboardService *)
BudgetStep(p) ==
  \/ \E u \in Users : GetTodaySpendingTransactions(p, u)
  \/ GetTodaySpendingBudget(p)
  \/ \E u \in Users, period \in {"weekly", "monthly"} : GetBudgetProgressExpenses(p, u, period)
  \/ GetBudgetProgressBudget(p)

NextBudget == BudgetStep(1)

SpecBudget == InitBudget /\ [][NextBudget]_vars

(* the instants getSavingsHistory is called at: in December, and in the    *)
(* January after it, when the months before lie in the year before         *)
HistoryNows == {StartDate, Date(StartDate.y + 1, 1, 15, 1)}
MaxHistoryMonths == 3

(* the rows the history starts from: up to MaxSummaryRows plan items of    *)
(* either user and type, of the current month or one of the                *)
(* MaxHistoryMonths months before it, row i of amount i                    *)
HistoryPlanItems(n) ==
  [1..n -> [userId : Users, itemType : {"SAVINGS", "EXPENSE"}, back : 0..MaxHistoryMonths]]

InitHistory ==
  /\ now \in HistoryNows
  /\ \E n \in 0..MaxSummaryRows :
       \E ps \in HistoryPlanItems(n) :
         db = [EmptyDb EXCEPT
                 !.planItems =
                    [i \in 1..n |->
                       LET date == JsDate(now.y, (now.m - 1) - ps[i].back, 1)
                       IN [userId |-> ps[i].userId, description |-> RentDescription,
                           amount |-> i, planType |-> MonthKey(date.y, date.m),
                           itemType |-> ps[i].itemType]]]
  /\ tx = EmptyDb
  /\ txOwner = 0
  /\ proc = [p \in AllProcs |-> IdleProc]
  /\ hist = NoHist

NextHistory == \E u \in Users, months \in 0..MaxHistoryMonths : GetSavingsHistory(1, u, months)

SpecHistory == InitHistory /\ [][NextHistory]_vars

(* ------------------------------ claims --------------------------------- *)
(* the step in which process p calls operation op *)
CallStep(p, op) == Ready(p) /\ proc'[p] # proc[p] /\ proc'[p].op = op

Returned(p, op, status) ==
  proc[p].pc = "done" /\ proc[p].op = op /\ proc[p].status = status

(* C1: with one request at a time, the currentAmount of every goal is its  *)
(* initial amount plus the sum of the amounts of the addFunds calls that   *)
(* were accepted, and right after an accepted addFunds call the goal is    *)
(* completed exactly when its currentAmount has reached its targetAmount.  *)
C1_AddFundsAddsExactly ==
  /\ \A g \in DOMAIN db.goals : db.goals[g].currentAmount = hist[g]
  /\ \A p \in AllProcs :
       Returned(p, "addFunds", "ok") =>
         LET goal == db.goals[proc[p].goalId]
         IN /\ goal.completed = (goal.currentAmount >= goal.targetAmount)
            /\ proc[p].ret = goal

(* C1 witness: an accepted deposit has completed a goal that holds more    *)
(* than any initial amount plus one deposit, so at least two deposits were *)
(* accepted.                                                               *)
C1_Witness ==
  /\ Returned(1, "addFunds", "ok")
  /\ db.goals[proc[1].goalId].currentAmount > MaxInitial + MaxAmount
  /\ db.goals[proc[1].goalId].completed

(* C2: an addFunds call that finds the goal completed throws Forbidden in  *)
(* that very step and leaves every row as it was.                          *)
C2_CompletedGoalRejects ==
  [][\A p \in AllProcs, g \in DOMAIN db.goals :
       (CallStep(p, "addFunds") /\ proc'[p].goalId = g /\ db.goals[g].completed)
         => (proc'[p].pc = "done" /\ proc'[p].status = "Forbidden" /\ db' = db)]_vars

(* C2 witness: the owner's addFunds on a completed goal was rejected. *)
C2_Witness ==
  /\ Returned(1, "addFunds", "Forbidden")
  /\ proc[1].goalId \in DOMAIN db.goals
  /\ db.goals[proc[1].goalId].userId = proc[1].userId
  /\ db.goals[proc[1].goalId].completed

(* the user's SAVINGS plan items of the month *)
savingsItemsOf(d, userId, month) ==
  {i \in DOMAIN d.planItems :
     /\ d.planItems[i].userId = userId
     /\ d.planItems[i].itemType = "SAVINGS"
     /\ d.planItems[i].planType = month}

(* both writes of the addFunds call of p are in d2 and not in d1 *)
BothWrites(p, d1, d2) ==
  LET g == proc[p].goalId
      amount == proc[p].dto.amount
      changed == {i \in DOMAIN d2.planItems :
                    i \notin DOMAIN d1.planItems \/ d1.planItems[i] # d2.planItems[i]}
  IN /\ d2.goals[g].currentAmount = d1.goals[g].currentAmount + amount
     /\ DOMAIN d1.planItems \subseteq DOMAIN d2.planItems
     /\ \E i \in savingsItemsOf(d2, proc[p].userId, currentMonthPlan) :
          /\ changed = {i}
          /\ d2.planItems[i].amount =
               (IF i \in DOMAIN d1.planItems THEN d1.planItems[i].amount ELSE 0) + amount

(* C3: every step of an addFunds transaction either leaves the committed   *)
(* rows untouched (a statement inside the transaction, or a failure that   *)
(* rolls it back) or publishes the goal update together with the plan item *)
(* change of the deposited amount.                                         *)
C3_AddFundsDualWriteAtomic ==
  [][\A p \in AllProcs :
       (proc[p].op = "addFunds" /\ proc[p].pc \in {"addFunds_goal", "addFunds_planItem"}
        /\ proc'[p] # proc[p])
         => \/ (proc'[p].status # "ok" /\ db' = db)
            \/ (proc'[p].status = "ok" /\ BothWrites(p, db, db'))]_vars

(* C3 witness: an addFunds transaction failed after its goal update and    *)
(* the goal still has the amount all accepted calls account for.           *)
C3_Witness ==
  /\ Returned(1, "addFunds", "error")
  /\ proc[1].goalId \in DOMAIN db.goals
  /\ db.goals[proc[1].goalId].currentAmount = hist[proc[1].goalId]

OwnershipOps == {"updateGoal", "deleteGoal", "addFunds", "completeGoal"}

(* C5: updateGoal, deleteGoal, addFunds and completeGoal throw NotFound    *)
(* for a goal id without a row and Forbidden for another user's goal, in   *)
(* the calling step, and leave every row as it was.                        *)
C5_OwnershipCheckedFirst ==
  [][\A p \in AllProcs, op \in OwnershipOps :
       CallStep(p, op) =>
         LET g == proc'[p].goalId
         IN /\ g \notin DOMAIN db.goals
                 => (proc'[p].pc = "done" /\ proc'[p].status = "NotFound" /\ db' = db)
            /\ (g \in DOMAIN db.goals /\ db.goals[g].userId # proc'[p].userId)
                 => (proc'[p].pc = "done" /\ proc'[p].status = "Forbidden" /\ db' = db)]_vars

(* C5 witness: a deleteGoal by a user who does not own the goal was        *)
(* rejected and the goal is still there.                                   *)
C5_Witness ==
  /\ Returned(1, "deleteGoal", "Forbidden")
  /\ proc[1].goalId \in DOMAIN db.goals
  /\ db.goals[proc[1].goalId].userId # proc[1].userId
(* C4: with two requests in flight, the amount an addFunds transaction     *)
(* commits is the currentAmount its verifyOwnership read before the        *)
(* transaction plus its own deposit, whatever was committed in between, so *)
(* a deposit committed between the read and the write is lost.             *)
C4_AddFundsWritesStaleRead ==
  [][\A p \in AllProcs :
       (proc[p].pc = "addFunds_planItem" /\ proc'[p].pc = "done" /\ proc'[p].status = "ok")
         => db'.goals[proc[p].goalId].currentAmount =
              proc[p].goal.currentAmount + proc[p].dto.amount]_vars

(* C4 witness: two addFunds calls on the same goal have both returned      *)
(* successfully and the goal holds less than its initial amount plus all   *)
(* accepted deposits.                                                      *)
C4_Witness ==
  /\ Returned(1, "addFunds", "ok")
  /\ Returned(2, "addFunds", "ok")
  /\ proc[1].goalId = proc[2].goalId
  /\ proc[1].goalId \in DOMAIN db.goals
  /\ db.goals[proc[1].goalId].currentAmount < hist[proc[1].goalId]
(* C6: when syncGoalsWithDashboard has returned, the user's SAVINGS plan   *)
(* items of the synced month are, as a multiset of (description, amount),  *)
(* one 'Savings: <name>' item of amount currentAmount per goal of the user *)
(* with currentAmount > 0; their sum is the sum of currentAmount over      *)
(* those goals and the reported syncStatus is 'synced'.                    *)
C6_SyncRebuildsCurrentMonth ==
  \A p \in AllProcs :
    Returned(p, "syncGoalsWithDashboard", "ok") =>
      LET userId == proc[p].userId
          items == savingsItemsOf(db, userId, proc[p].ret.period)
          funded == {g \in DOMAIN db.goals :
                       db.goals[g].userId = userId /\ db.goals[g].currentAmount > 0}
      IN /\ Cardinality(items) = Cardinality(funded)
         /\ \A g \in funded :
              Cardinality({i \in items :
                             /\ db.planItems[i].description =
                                  SavingsDescription(db.goals[g].name)
                             /\ db.planItems[i].amount = db.goals[g].currentAmount})
                = Cardinality({h \in funded :
                                 /\ db.goals[h].name = db.goals[g].name
                                 /\ db.goals[h].currentAmount = db.goals[g].currentAmount})
         /\ SumAmount(db.planItems, items) = SumCurrent(db.goals, funded)
         /\ proc[p].ret.syncStatus = "synced"
         /\ proc[p].ret.syncedItemsCount = Cardinality(funded)

(* C6 witness: a sync has rebuilt the items of a user with two funded      *)
(* goals while an item of an earlier month and a goal of another user exist *)
C6_Witness ==
  /\ Returned(1, "syncGoalsWithDashboard", "ok")
  /\ proc[1].ret.syncedItemsCount = 2
  /\ \E i \in DOMAIN db.planItems : db.planItems[i].planType # proc[1].ret.period
ZeroCleared ==
  [transactions |-> 0, bills |-> 0, savingsGoals |-> 0, planItems |-> 0, budgets |-> 0,
   userCategories |-> 0]

(* the user has no transaction, bill, goal, plan item, budget or           *)
(* user-created category in d                                              *)
NothingLeft(d, userId) ==
  /\ \A i \in DOMAIN d.transactions : d.transactions[i].userId # userId
  /\ \A i \in DOMAIN d.bills : d.bills[i].userId # userId
  /\ \A i \in DOMAIN d.goals : d.goals[i].userId # userId
  /\ \A i \in DOMAIN d.planItems : d.planItems[i].userId # userId
  /\ \A i \in DOMAIN d.budgets : d.budgets[i].userId # userId
  /\ \A i \in DOMAIN d.categories :
       d.categories[i].userId = userId => d.categories[i].isDefault

(* C7: with one request at a time, the step in which clearAllUserData      *)
(* returns leaves the user without transactions, bills, goals, plan items, *)
(* budgets and user-created categories and keeps every default category as *)
(* it was; a clearAllUserData called for the same user right after one     *)
(* that returned counts zero rows of every kind.                           *)
C7_ClearAllEmptiesAndIsIdempotent ==
  [][\A p \in AllProcs :
       /\ (proc[p].op = "clearAllUserData" /\ proc[p].pc # "done"
           /\ proc'[p].pc = "done" /\ proc'[p].status = "ok")
            => /\ NothingLeft(db', proc[p].userId)
               /\ \A i \in DOMAIN db.categories :
                    db.categories[i].isDefault
                      => (i \in DOMAIN db'.categories
                          /\ db'.categories[i] = db.categories[i])
       /\ (Returned(p, "clearAllUserData", "ok") /\ CallStep(p, "clearAllUserData")
           /\ proc'[p].userId = proc[p].userId)
            => proc'[p].counts = NoCounts
       /\ (proc[p].op = "clearAllUserData" /\ proc[p].pc # "done"
           /\ proc[p].counts = NoCounts /\ proc'[p].pc = "done" /\ proc'[p].status = "ok")
            => proc'[p].ret.clearedData = ZeroCleared]_vars

(* C7 witness: a clearAllUserData has returned all-zero counts for a user  *)
(* who still has a default category, while the other user's rows exist.    *)
C7_Witness ==
  /\ Returned(1, "clearAllUserData", "ok")
  /\ proc[1].ret.clearedData = ZeroCleared
  /\ \E i \in DOMAIN db.categories :
       db.categories[i].userId = proc[1].userId /\ db.categories[i].isDefault
  /\ \E i \in DOMAIN db.transactions : db.transactions[i].userId # proc[1].userId

ClearOps == {"clearTransactions", "clearBills", "clearSavingsGoals", "clearAllUserData"}

(* the count a clear operation returned equals the rows of that type it    *)
(* deleted                                                                 *)
CountIsDeleted(q) ==
  CASE q.op = "clearTransactions" -> q.ret.clearedCount = q.deleted.transactions
    [] q.op = "clearBills" -> q.ret.clearedCount = q.deleted.bills
    [] q.op = "clearSavingsGoals" -> q.ret.clearedCount = q.deleted.savingsGoals
    [] q.op = "clearAllUserData" ->
         \A t \in DOMAIN ZeroCleared : q.ret.clearedData[t] = q.deleted[t]

(* C8: with two requests in flight, no step of a clear operation before    *)
(* its last one changes the committed rows, and the count a clear          *)
(* operation returns is the number of rows of that type it deleted.        *)
C8_ClearOpsAtomicWithExactCount ==
  [][\A p \in AllProcs :
       (proc[p].op \in ClearOps /\ proc[p].pc # "done" /\ proc'[p] # proc[p])
         => /\ proc'[p].pc # "done" => db' = db
            /\ (proc'[p].pc = "done" /\ proc'[p].status = "ok") => CountIsDeleted(proc'[p])]_vars

(* the working copy of the open transaction after this step: the committed *)
(* rows once it has committed                                              *)
WorkingAfter(p) == IF txOwner' = p THEN tx' ELSE db'

(* C9: no statement of clearBills, clearSavingsGoals or clearAllUserData   *)
(* deletes a bill of the user while a transaction of the user references a *)
(* bill, a goal of the user while a SAVINGS plan item of the user exists,  *)
(* or a budget while a category allocation of that budget exists.          *)
C9_DependentsDeletedFirst ==
  [][\A p \in AllProcs :
       (txOwner = p /\ proc[p].op \in ClearOps /\ proc'[p].status # "error")
         => LET userId == proc[p].userId
                after == WorkingAfter(p)
            IN /\ rowsOf(tx.bills, userId) # rowsOf(after.bills, userId)
                    => billTransactions(tx, userId) = {}
               /\ rowsOf(tx.goals, userId) # rowsOf(after.goals, userId)
                    => savingsPlanItems(tx, userId) = {}
               /\ \A b \in rowsOf(tx.budgets, userId) :
                    b \notin DOMAIN after.budgets
                      => \A a \in DOMAIN tx.categoryAllocations :
                           tx.categoryAllocations[a].budgetId # b]_vars
(* the position of a date on the time line *)
DateRank(date) == ((date.y * 12 + date.m) * 32 + date.d) * (LastTick + 1) + date.t

(* C10: getFinancialSummary returns as incomeTotal and expenseTotal the    *)
(* sums of the user's INCOME and EXPENSE transactions dated from fromDate  *)
(* to toDate inclusive (the current month when a date is not given), as    *)
(* savingsTotal the sum of all SAVINGS plan items of the user of any       *)
(* month, and remainingAmount = incomeTotal - expenseTotal - savingsTotal; *)
(* without matching rows every sum is 0.                                   *)
C10_FinancialSummaryTotals ==
  \A p \in AllProcs :
    Returned(p, "getFinancialSummary", "ok") =>
      LET userId == proc[p].userId
          ret == proc[p].ret
          from == IF proc[p].dto.fromDate # NoDate THEN DateRank(proc[p].dto.fromDate)
                  ELSE DateRank(Date(now.y, now.m, 1, 0))
          to == IF proc[p].dto.toDate # NoDate THEN DateRank(proc[p].dto.toDate)
                ELSE DateRank(Date(now.y, now.m + 1, 1, 0)) - 1
          dated(type) == {i \in DOMAIN db.transactions :
                            /\ db.transactions[i].userId = userId
                            /\ db.transactions[i].type = type
                            /\ from <= DateRank(db.transactions[i].date)
                            /\ DateRank(db.transactions[i].date) <= to}
          saved == {i \in DOMAIN db.planItems :
                      db.planItems[i].userId = userId /\ db.planItems[i].itemType = "SAVINGS"}
      IN /\ ret.incomeTotal = SumAmount(db.transactions, dated("INCOME"))
         /\ ret.expenseTotal = SumAmount(db.transactions, dated("EXPENSE"))
         /\ ret.savingsTotal = SumAmount(db.planItems, saved)
         /\ ret.remainingAmount = ret.incomeTotal - ret.expenseTotal - ret.savingsTotal
         /\ (dated("INCOME") = {} /\ dated("EXPENSE") = {} /\ saved = {})
              => (ret.incomeTotal = 0 /\ ret.expenseTotal = 0 /\ ret.savingsTotal = 0
                  /\ ret.remainingAmount = 0)

(* C10 witness: a summary of the current month counted an income on the    *)
(* first instant of the month and an expense on its last instant, and a    *)
(* SAVINGS plan item of the month before.                                  *)
C10_Witness ==
  /\ Returned(1, "getFinancialSummary", "ok")
  /\ proc[1].dto.fromDate = NoDate /\ proc[1].dto.toDate = NoDate
  /\ proc[1].ret.incomeTotal > 0 /\ proc[1].ret.expenseTotal > 0
  /\ \E i \in DOMAIN db.transactions :
       /\ db.transactions[i].userId = proc[1].userId
       /\ db.transactions[i].type = "INCOME"
       /\ db.transactions[i].date = proc[1].ret.startDate
  /\ \E i \in DOMAIN db.transactions :
       /\ db.transactions[i].userId = proc[1].userId
       /\ db.transactions[i].type = "EXPENSE"
       /\ db.transactions[i].date = proc[1].ret.endDate
  /\ proc[1].ret.savingsTotal > 0
  /\ \A i \in DOMAIN db.planItems :
       (db.planItems[i].userId = proc[1].userId /\ db.planItems[i].itemType = "SAVINGS")
         => db.planItems[i].planType = MonthKey(StartDate.y, 11)

(* the user's budgets of the type whose window holds the instant at *)
BudgetsHolding(userId, type, at) ==
  {i \in DOMAIN db.budgets :
     /\ db.budgets[i].userId = userId
     /\ db.budgets[i].type = type
     /\ DateRank(db.budgets[i].startDate) <= DateRank(at)
     /\ DateRank(at) <= DateRank(db.budgets[i].endDate)}

(* the number of days of the calendar month of the instants BudgetNows *)
CalendarDays(date) ==
  CASE date.y = 2023 /\ date.m = 2 -> 28
    [] date.y = 2024 /\ date.m = 2 -> 29
    [] date.y = 2024 /\ date.m = 11 -> 30
    [] date.y = 2024 /\ date.m = 12 -> 31

(* C11: getTodaySpending returns dailyBudget 0 and remainingBudget 0 when  *)
(* the user has no MONTHLY budget whose window holds now; otherwise        *)
(* dailyBudget is the amount of such a budget divided by the number of     *)
(* days of the current calendar month, and remainingBudget is dailyBudget  *)
(* minus what was spent today, or 0 when that is negative.                 *)
C11_TodaySpendingDailyBudget ==
  \A p \in AllProcs :
    Returned(p, "getTodaySpending", "ok") =>
      LET ret == proc[p].ret
          holding == BudgetsHolding(proc[p].userId, "MONTHLY", now)
          daily == ret.dailyBudget
          left == ret.remainingBudget
      IN /\ holding = {} => (daily.num = 0 /\ left.num = 0)
         /\ holding # {} =>
              /\ \E b \in holding :
                   daily.num * CalendarDays(now) = db.budgets[b].amount * daily.den
              /\ daily.den > 0 /\ left.den > 0
              /\ left.num >= 0
              /\ IF daily.num >= ret.totalSpentToday * daily.den
                 THEN left.num * daily.den
                        = (daily.num - ret.totalSpentToday * daily.den) * left.den
                 ELSE left.num = 0

(* C11 witness: in a February of 29 days the user spent less today than    *)
(* the daily share of the active monthly budget, and something is left.    *)
C11_Witness ==
  /\ Returned(1, "getTodaySpending", "ok")
  /\ now.m = 2 /\ now.d = 29
  /\ proc[1].ret.totalSpentToday > 0
  /\ proc[1].ret.dailyBudget.den = 29
  /\ proc[1].ret.remainingBudget.num > 0

(* C12: getBudgetProgress returns percentageUsed 0 whenever the target     *)
(* budget is 0, which it is when no budget of the requested type is active *)
(* now, whatever was spent; remainingAmount is the target minus the        *)
(* spending of the period, or 0 when the spending exceeds the target, and  *)
(* so never negative.                                                      *)
C12_BudgetProgressZeroTarget ==
  \A p \in AllProcs :
    Returned(p, "getBudgetProgress", "ok") =>
      LET ret == proc[p].ret
          type == IF ret.period = "weekly" THEN "WEEKLY" ELSE "MONTHLY"
          holding == BudgetsHolding(proc[p].userId, type, now)
      IN /\ holding = {} => ret.targetBudget = 0
         /\ holding # {} => \E b \in holding : ret.targetBudget = db.budgets[b].amount
         /\ ret.targetBudget = 0 => ret.percentageUsed.num = 0
         /\ ret.remainingAmount >= 0
         /\ ret.currentSpending >= ret.targetBudget => ret.remainingAmount = 0
         /\ ret.currentSpending < ret.targetBudget
              => ret.remainingAmount = ret.targetBudget - ret.currentSpending

(* C12 witness: the active weekly budget has amount 0 and the user has     *)
(* spent in the week: 0 percent used and nothing remaining.                *)
C12_Witness ==
  /\ Returned(1, "getBudgetProgress", "ok")
  /\ proc[1].ret.period = "weekly"
  /\ BudgetsHolding(proc[1].userId, "WEEKLY", now) # {}
  /\ proc[1].ret.targetBudget = 0
  /\ proc[1].ret.currentSpending > 0
  /\ proc[1].ret.percentageUsed = Zero
  /\ proc[1].ret.remainingAmount = 0

(* C13: a completeGoal call by the owner on a completed goal throws        *)
(* Forbidden in the calling step and changes no row; on a goal that is not *)
(* completed it goes on to its update, which sets completed whatever the   *)
(* amounts are and leaves the goal's other fields, every other goal and    *)
(* every plan item as they were.                                           *)
C13_CompleteGoalForcesCompleted ==
  [][\A p \in AllProcs :
       /\ \A g \in DOMAIN db.goals :
            (CallStep(p, "completeGoal") /\ proc'[p].goalId = g
             /\ db.goals[g].userId = proc'[p].userId)
              => /\ db' = db
                 /\ IF db.goals[g].completed
                    THEN proc'[p].pc = "done" /\ proc'[p].status = "Forbidden"
                    ELSE proc'[p].pc = "completeGoal_update"
       /\ (proc[p].pc = "completeGoal_update" /\ proc'[p].pc = "done"
           /\ proc'[p].status = "ok")
            => LET g == proc[p].goalId
               IN /\ db' = [db EXCEPT !.goals[g].completed = TRUE]
                  /\ proc'[p].ret = db'.goals[g]]_vars

(* C13 witness: completeGoal has completed a goal whose currentAmount is   *)
(* below its targetAmount while a plan item of the goal exists.            *)
C13_Witness ==
  /\ Returned(1, "completeGoal", "ok")
  /\ proc[1].goalId \in DOMAIN db.goals
  /\ db.goals[proc[1].goalId].completed
  /\ db.goals[proc[1].goalId].currentAmount > 0
  /\ db.goals[proc[1].goalId].currentAmount < db.goals[proc[1].goalId].targetAmount
  /\ relatedPlanItems(db, proc[1].userId, db.goals[proc[1].goalId].name) # {}

(* the rows of d2 that are not rows of d1 *)
NewIds(rows1, rows2) == (DOMAIN rows2) \ (DOMAIN rows1)

(* C14: no step of createGoal before its last one changes the committed    *)
(* rows, and a failure leaves them as they were; the step that commits     *)
(* adds the goal, with completed = false, and together with it exactly one *)
(* SAVINGS plan item of the current month holding the initial              *)
(* currentAmount when that amount is > 0, and no plan item otherwise.      *)
C14_CreateGoalInitialPlanItem ==
  [][\A p \in AllProcs :
       /\ (CallStep(p, "createGoal") \/ (proc[p].op = "createGoal" /\ proc[p].pc # "done"
                                          /\ proc'[p].status # "ok"))
            => db' = db
       /\ (proc[p].pc = "createGoal_planItem" /\ proc'[p].pc = "done"
           /\ proc'[p].status = "ok")
            => LET g == proc[p].goalId
                   dto == proc[p].dto
                   created == NewIds(db.planItems, db'.planItems)
               IN /\ NewIds(db.goals, db'.goals) = {g}
                  /\ \A h \in DOMAIN db.goals : db'.goals[h] = db.goals[h]
                  /\ db'.goals[g] = [userId |-> proc[p].userId, name |-> dto.name,
                                     targetAmount |-> dto.targetAmount,
                                     currentAmount |-> dto.currentAmount,
                                     completed |-> FALSE]
                  /\ \A i \in DOMAIN db.planItems :
                       i \in DOMAIN db'.planItems /\ db'.planItems[i] = db.planItems[i]
                  /\ (dto.currentAmount > 0) = (created # {})
                  /\ \A i \in created :
                       /\ created = {i}
                       /\ db'.planItems[i] =
                            [userId |-> proc[p].userId,
                             description |-> SavingsPrefix \o dto.name,
                             amount |-> dto.currentAmount,
                             planType |-> MonthKey(now.y, now.m),
                             itemType |-> "SAVINGS"]]_vars

(* C14 witness: a goal was created with an initial amount that reaches its *)
(* target: it is not completed and its plan item holds the amount.         *)
C14_Witness ==
  /\ Returned(1, "createGoal", "ok")
  /\ proc[1].goalId \in DOMAIN db.goals
  /\ LET goal == db.goals[proc[1].goalId]
     IN /\ goal.currentAmount >= goal.targetAmount
        /\ ~goal.completed
        /\ \E i \in DOMAIN db.planItems :
             /\ db.planItems[i].amount = goal.currentAmount
             /\ db.planItems[i].description = SavingsPrefix \o goal.name

(* C15: no step of updateGoal before its last one changes the committed    *)
(* rows; the step that commits a change of the goal's name from A to B     *)
(* gives every SAVINGS plan item of the user whose description contains A  *)
(* the description 'Savings: B' and leaves its amount and every other plan *)
(* item as they were; without a change of name no plan item changes.       *)
C15_RenameRelabelsPlanItems ==
  [][\A p \in AllProcs :
       /\ (CallStep(p, "updateGoal") \/ (proc[p].op = "updateGoal" /\ proc[p].pc # "done"
                                          /\ proc'[p].status # "ok"))
            => db' = db
       /\ (proc[p].pc = "updateGoal_planItems" /\ proc'[p].pc = "done"
           /\ proc'[p].status = "ok")
            => LET g == proc[p].goalId
                   A == db.goals[g].name
                   B == proc[p].dto.name
                   renamed == B # NoName /\ B # A
               IN /\ db'.goals[g].name = (IF B # NoName THEN B ELSE A)
                  /\ DOMAIN db'.planItems = DOMAIN db.planItems
                  /\ \A i \in DOMAIN db.planItems :
                       IF /\ renamed
                          /\ db.planItems[i].userId = proc[p].userId
                          /\ db.planItems[i].itemType = "SAVINGS"
                          /\ Contains(db.planItems[i].description, A)
                       THEN db'.planItems[i] =
                              [db.planItems[i] EXCEPT !.description = SavingsPrefix \o B]
                       ELSE db'.planItems[i] = db.planItems[i]]_vars

(* C15 witness: the goal named c was renamed while the same user has a     *)
(* goal named cd, and the plan item of the goal cd now carries the new     *)
(* name of the other goal.                                                 *)
C15_Witness ==
  /\ Returned(1, "updateGoal", "ok")
  /\ proc[1].ret.name = NameSavings
  /\ \E h \in DOMAIN db.goals :
       /\ h # proc[1].goalId
       /\ db.goals[h].userId = proc[1].userId
       /\ db.goals[h].name = NameCD
       /\ db.goals[h].currentAmount > 0
       /\ Cardinality(DOMAIN db.planItems) >= 2
       /\ \A i \in DOMAIN db.planItems :
            db.planItems[i].description = SavingsPrefix \o NameSavings

(* the names overlap: one contains the other *)
Overlap(a, b) == Contains(a, b) \/ Contains(b, a)

(* C16: the step that commits a deleteGoal removes the goal and every      *)
(* SAVINGS plan item of the user whose description contains the goal's     *)
(* name, earlier steps and failures change no committed row, a deleted     *)
(* goal id never has a row again, and when the name of no other goal       *)
(* overlaps the deleted name, every other goal and every plan item         *)
(* 'Savings: <name of another goal>' stays as it was.                      *)
C16_DeleteGoalFrame ==
  [][\A p \in AllProcs :
       /\ (CallStep(p, "deleteGoal") \/ (proc[p].op = "deleteGoal" /\ proc[p].pc # "done"
                                          /\ proc'[p].status # "ok"))
            => db' = db
       /\ \A g \in 1..db.goalSeq : g \notin DOMAIN db.goals => g \notin DOMAIN db'.goals
       /\ (proc[p].pc = "deleteGoal_goal" /\ proc'[p].pc = "done" /\ proc'[p].status = "ok")
            => LET g == proc[p].goalId
                   A == db.goals[g].name
                   others == (DOMAIN db.goals) \ {g}
               IN /\ DOMAIN db'.goals = others
                  /\ \A i \in DOMAIN db.planItems :
                       (/\ db.planItems[i].userId = proc[p].userId
                        /\ db.planItems[i].itemType = "SAVINGS"
                        /\ Contains(db.planItems[i].description, A))
                         => i \notin DOMAIN db'.planItems
                  /\ (\A h \in others : ~Overlap(db.goals[h].name, A))
                       => /\ \A h \in others : db'.goals[h] = db.goals[h]
                          /\ \A i \in DOMAIN db.planItems :
                               (\E h \in others :
                                  db.planItems[i].description
                                    = SavingsPrefix \o db.goals[h].name)
                                 => (i \in DOMAIN db'.planItems
                                     /\ db'.planItems[i] = db.planItems[i])]_vars

(* the calendar month k months before the month of date, as [y, m] *)
MonthsBefore(date, k) ==
  LET index == date.y * 12 + (date.m - 1) - k
  IN [y |-> index \div 12, m |-> (index % 12) + 1]

(* the total of the user's SAVINGS plan items of the month *)
SavedIn(userId, month) ==
  SumAmount(db.planItems,
            {i \in DOMAIN db.planItems :
               /\ db.planItems[i].userId = userId
               /\ db.planItems[i].itemType = "SAVINGS"
               /\ db.planItems[i].planType = MonthKey(month.y, month.m)})

(* C17: getSavingsHistory(userId, N) with N >= 1 returns N entries, entry  *)
(* k being the month k - 1 months before the current one (most recent      *)
(* first) with totalSaved the sum of the user's SAVINGS plan items of that *)
(* month; totalAcrossAllMonths is the sum of the N totals, the amount of   *)
(* highestMonth is the greatest total and, when a total is positive, its   *)
(* period is that of an entry with the greatest total.                     *)
C17_SavingsHistoryMostRecentFirst ==
  \A p \in AllProcs :
    (Returned(p, "getSavingsHistory", "ok") /\ proc[p].dto.amount >= 1) =>
      LET N == proc[p].dto.amount
          userId == proc[p].userId
          history == proc[p].ret.history
          summary == proc[p].ret.summary
          total(k) == SavedIn(userId, MonthsBefore(now, k - 1))
      IN /\ Len(history) = N
         /\ \A k \in 1..N :
              LET month == MonthsBefore(now, k - 1)
              IN /\ history[k].period = MonthKey(month.y, month.m)
                 /\ history[k].totalSaved = total(k)
         /\ summary.totalAcrossAllMonths
              = SumAmount([k \in 1..N |-> [amount |-> total(k)]], 1..N)
         /\ \A k \in 1..N : summary.highestMonth.amount >= total(k)
         /\ (\E k \in 1..N : total(k) > 0)
              => \E k \in 1..N :
                   /\ summary.highestMonth.amount = total(k)
                   /\ summary.highestMonth.period
                        = [month |-> MonthsBefore(now, k - 1).m,
                           year |-> MonthsBefore(now, k - 1).y]
         /\ (\A k \in 1..N : total(k) = 0) => summary.highestMonth.amount = 0

(* C18: after every sequence of createGoal, addFunds, updateGoal,          *)
(* completeGoal and deleteGoal requests of one user, one at a time, in     *)
(* which no goal name contains another name of the user, the sum of all    *)
(* SAVINGS plan items of the user (the dashboard's savingsTotal) is the    *)
(* sum of currentAmount over the user's goals.                             *)
C18_SavingsTotalMatchesGoals ==
  \A u \in Users :
    SumAmount(db.planItems, savingsItems(db, u)) = SumCurrent(db.goals, goalsOf(db, u))

(* C19: when syncGoalsWithDashboard has returned and nothing was written   *)
(* since, the sum of all SAVINGS plan items of the user, which is the      *)
(* savingsTotal of getFinancialSummary, is the sum of currentAmount over   *)
(* the user's goals.                                                       *)
C19_SyncReconcilesSavingsTotal ==
  \A p \in AllProcs :
    Returned(p, "syncGoalsWithDashboard", "ok") =>
      SumAmount(db.planItems, savingsItems(db, proc[p].userId))
        = SumCurrent(db.goals, goalsOf(db, proc[p].userId))

(* C20: with two requests in flight, no step takes the completed flag of a *)
(* goal that stays in the table from true to false.                        *)
C20_CompletedNeverReverts ==
  [][\A g \in (DOMAIN db.goals) \cap (DOMAIN db'.goals) :
       db.goals[g].completed => db'.goals[g].completed]_vars

OwnedTables == {"transactions", "bills", "budgets", "categories", "goals", "planItems"}

(* the rows of the table that the user owns, with their ids *)
OwnedRows(d, table, userId) ==
  {<<i, d[table][i]>> : i \in {j \in DOMAIN d[table] : d[table][j].userId = userId}}

(* C21: a step of a request made with user id A (a clear operation,        *)
(* createGoal, updateGoal, deleteGoal, addFunds, completeGoal or           *)
(* syncGoalsWithDashboard) leaves the transactions, bills, budgets,        *)
(* categories, savings goals and plan items of every other user exactly as *)
(* they were.                                                              *)
C21_OtherUsersRowsUntouched ==
  [][\A B \in Users, table \in OwnedTables :
       B # proc'[1].userId => OwnedRows(db', table, B) = OwnedRows(db, table, B)]_vars

(* C21 witness: u1 has deleted its goal and has no SAVINGS plan item left, *)
(* while u2 still has its transactions, its goal named c and the plan item *)
(* 'Savings: c' of that goal.                                              *)
C21_Witness ==
  /\ Returned(1, "deleteGoal", "ok")
  /\ proc[1].userId = "u1"
  /\ savingsItems(db, "u1") = {}
  /\ rowsOf(db.transactions, "u2") # {}
  /\ \E g \in goalsOf(db, "u2") : db.goals[g].name = NameC
  /\ \E i \in savingsItems(db, "u2") : db.planItems[i].description = SavingsPrefix \o NameC

(* C22: the step that commits an updateGoal gives the goal the supplied    *)
(* name and the supplied targetAmount and leaves its other fields, among   *)
(* them currentAmount and completed, every other goal and the amount of    *)
(* every plan item as they were; no other step of updateGoal changes a     *)
(* committed row.                                                          *)
C22_UpdateGoalOnlySuppliedFields ==
  [][\A p \in AllProcs :
       (proc[p].op = "updateGoal" /\ proc[p].pc # "done" /\ proc'[p] # proc[p])
         => IF proc'[p].pc = "done" /\ proc'[p].status = "ok"
            THEN LET g == proc[p].goalId
                     dto == proc[p].dto
                 IN /\ DOMAIN db'.goals = DOMAIN db.goals
                    /\ \A h \in (DOMAIN db.goals) \ {g} : db'.goals[h] = db.goals[h]
                    /\ db'.goals[g].userId = db.goals[g].userId
                    /\ db'.goals[g].currentAmount = db.goals[g].currentAmount
                    /\ db'.goals[g].completed = db.goals[g].completed
                    /\ db'.goals[g].name
                         = (IF dto.name # NoName THEN dto.name ELSE db.goals[g].name)
                    /\ db'.goals[g].targetAmount
                         = (IF dto.targetAmount # 0 THEN dto.targetAmount
                            ELSE db.goals[g].targetAmount)
                    /\ DOMAIN db'.planItems = DOMAIN db.planItems
                    /\ \A i \in DOMAIN db.planItems :
                         db'.planItems[i].amount = db.planItems[i].amount
            ELSE db' = db]_vars

(* C22 witness: updateGoal has lowered the targetAmount of a goal that is  *)
(* not completed below its currentAmount, and the goal is still not        *)
(* completed.                                                              *)
C22_Witness ==
  /\ Returned(1, "updateGoal", "ok")
  /\ proc[1].goalId \in DOMAIN db.goals
  /\ proc[1].ret = db.goals[proc[1].goalId]
  /\ proc[1].ret.targetAmount < proc[1].ret.currentAmount
  /\ proc[1].ret.targetAmount < MaxInitial + 1
  /\ ~proc[1].ret.completed
====
